---- MODULE Spec2Model ----
(***************************************************************************)
(* Starburst: the animation progress driver of StarburstRenderer, the UI   *)
(* handlers of initialization.js that write the renderer's options, and    *)
(* the ShapeCalculator distance functions.                                 *)
(*                                                                         *)
(* Numbers.  JavaScript numbers are modelled in fixed point:               *)
(*   - morphProgress is an integer count of 1/PScale;                      *)
(*   - animationSpeed is an integer count of halves (4 is speed 2);        *)
(*   - a frame delta is an integer count of fifths of the nominal frame    *)
(*     interval 16.67 ms (5 is one nominal frame);                         *)
(* so that (speed/100) * (delta/16.67) is exactly speed*delta/PScale.      *)
(***************************************************************************)
EXTENDS Integers, Sequences, FiniteSets, TLC

VARIABLES
    morphProgress,        \* renderer.options.morphProgress, to the nearest 1/1000
    sumShort,             \* morphProgress is on a bound and the double is just short of it
    animationDirection,   \* renderer.animationDirection
    animationMode,        \* renderer.options.animationMode
    selectedShapes,       \* renderer.options.selectedShapes
    currentShapeIndex,    \* renderer.options.currentShapeIndex
    nextShapeIndex,       \* renderer.options.nextShapeIndex
    animationSpeed,       \* renderer.options.animationSpeed
    isAnimating,          \* renderer.isAnimating
    animationFrame,       \* renderer.animationFrame (0 is null)
    pendingFrames,        \* animation-frame callbacks the browser still holds
    checked,              \* the shape checkboxes of the multi-shape panel
    crossings,            \* history: multiShape advances since the indices were 0/1 (-1: never)
    gShape,               \* getShapeDistance: the shape argument
    gAngle,               \* getShapeDistance: the angle argument
    gOptions,             \* getShapeDistance: the options argument
    gPc,                  \* getShapeDistance: where the call stands
    normalizedAngle,      \* getShapeDistance: the local normalizedAngle
    gResult,              \* getShapeDistance: the value returned
    gTurns,               \* getShapeDistance: turns of the while loop so far, modulo 2
    mOptions,             \* _calculateMorphedDistance: this.options as destructured
    mAngle,               \* _calculateMorphedDistance: the angle argument
    morph,                \* _calculateMorphedDistance: its locals, where it stands, its result
    cArgs,                \* applyCornerRadius: the arguments
    cPc,                  \* applyCornerRadius: where the call stands
    cResult,              \* applyCornerRadius: the value returned
    toggleTest,           \* the toggleAnimation test: its locals and what the calls returned
    settingsArg,          \* a ConfigManager call: the settings argument
    config,               \* ConfigManager calls: where they stand, their storage, their results
    loggerThis,           \* a Logger call: the level, history and time it finds
    loggerCall,           \* a Logger call: the method called and its argument
    loggerPc,             \* a Logger call: where it stands, and the calls made before it
    loggerResult,         \* a Logger call: the level and history it leaves
    now,                  \* the time, in units of 50 ms
    resizeTimeout,        \* renderer.resizeTimeout (0 is undefined)
    timers,               \* the timers setTimeout has set and that have not fired
    lastResizeEvent,      \* history: the time of the last window resize event (-1: none)
    bursts,               \* history: bursts of resize events begun
    dropped,              \* history: bursts whose timer a later burst cleared
    resizes,              \* history: runs of _resizeCanvas() and render() from the timer
    lastResizeDelay,      \* history: how long after the last event the timer last fired
    fontFamily,           \* settings.fontFamily
    textCase,             \* settings.textCase
    caseToggleActive,     \* textCaseToggle has the class 'active'
    caseToggleModified,   \* textCaseToggle has the class 'modified-for-handwriting'
    caseIconActive,       \* the 'case' typography icon has the class 'active'
    activeFontButton,     \* the font button that has the class 'active'
    activeFontIcon        \* the font typography icon that has the class 'active' ("" is none)

rendererVars == <<morphProgress, sumShort, animationDirection, animationMode,
                  selectedShapes, currentShapeIndex, nextShapeIndex, animationSpeed, isAnimating,
                  animationFrame, pendingFrames, checked, crossings>>

calculatorVars == <<gShape, gAngle, gOptions, gPc, normalizedAngle, gResult, gTurns>>

morphVars == <<mOptions, mAngle, morph>>

cornerVars == <<cArgs, cPc, cResult>>

\* the state of the calls that are not under way in the renderer or in
\* getShapeDistance
testVars == <<toggleTest>>

configVars == <<settingsArg, config>>

loggerVars == <<loggerThis, loggerCall, loggerPc, loggerResult>>

resizeVars == <<now, resizeTimeout, timers, lastResizeEvent, bursts, dropped,
                resizes, lastResizeDelay>>

typographyVars == <<fontFamily, textCase, caseToggleActive, caseToggleModified,
                    caseIconActive, activeFontButton, activeFontIcon>>

pageVars == <<loggerVars, resizeVars, typographyVars>>

otherVars == <<morphVars, cornerVars, testVars, configVars, pageVars>>

vars == <<rendererVars, calculatorVars, otherVars>>

(***************************************************************************)
(* Units and bounds                                                        *)
(***************************************************************************)
PScale == 1000

\* cap on |morphProgress| (it grows without limit when no shape pair exists)
MaxProgress == 1500

\* cap on the crossings history counter
MaxCrossings == 3

\* animation speeds on offer (halves): -1, 2, 5
Speeds == {-2, 4, 10}

\* frame deltas on offer (fifths of 16.67 ms): -25, 0, 25 and 50 nominal frames
Deltas == {-125, 0, 125, 250}

\* values the morph-progress slider can be dragged to
SliderValues == {0, 100, 500, 1000}

\* the shape checkboxes of the page, in document order.  The document is not
\* part of the source: the boxes are those the handlers name ('circle' and
\* 'star', "the first two shapes", and 'triangle') and one more.
ShapeBoxes == <<"circle", "star", "triangle", "square">>

BoxNames == {ShapeBoxes[i] : i \in 1..Len(ShapeBoxes)}

Modes == {"twoShape", "multiShape"}

\* shape lists a share URL can carry (parseURLParams does not validate them)
UrlShapeLists == {<<"triangle", "circle">>, <<>>, <<"star">>,
                  <<"star", "square", "circle">>, <<"star", "nonexistent">>}

\* the progress the page starts with: the default, or 0.5 from the URL or
\* from the settings a page before has stored
StartProgress == {0, 500}

\* the shape indices the page starts with: the defaults, or what the URL carries
UrlIndices == {<<0, 1>>, <<5, 7>>}

\* shape lists the page can take from storage: saveSettings stores validated lists
StoredShapeLists == {<<"triangle", "circle">>, <<"star", "square", "circle">>}

(***************************************************************************)
(* ShapeCalculator: numbers                                                *)
(*                                                                         *)
(* Distances, radii and factors are integers counting 1/DScale.  Angles    *)
(* are integers counting 1.5 degrees, so that 2*PI is TwoPi and the        *)
(* corners and sector middles of all the shapes fall on whole angles.      *)
(* Math.cos is a table at every 0.75 degrees, rounded to 1/DScale.         *)
(***************************************************************************)
DScale == 1000

TwoPi == 240

Pi == 120

\* 1000 * cos(0.75 degrees * i), i = 0..120
CosTable == <<
    1000, 1000, 1000, 999, 999, 998, 997, 996, 995, 993, 991, 990,
    988, 986, 983, 981, 978, 975, 972, 969, 966, 962, 959, 955,
    951, 947, 943, 938, 934, 929, 924, 919, 914, 908, 903, 897,
    891, 885, 879, 872, 866, 859, 853, 846, 839, 831, 824, 817,
    809, 801, 793, 785, 777, 769, 760, 752, 743, 734, 725, 716,
    707, 698, 688, 679, 669, 659, 649, 639, 629, 619, 609, 598,
    588, 577, 566, 556, 545, 534, 522, 511, 500, 489, 477, 466,
    454, 442, 431, 419, 407, 395, 383, 371, 358, 346, 334, 321,
    309, 297, 284, 271, 259, 246, 233, 221, 208, 195, 182, 169,
    156, 143, 131, 118, 105, 92, 78, 65, 52, 39, 26, 13,
    0
>>

\* Math.cos of h half-units (0.75 degrees each)
CosHalf(h) ==
    LET m == h % 480
        f == IF m > 240 THEN 480 - m ELSE m
    IN IF f <= 120 THEN CosTable[f + 1] ELSE -CosTable[(240 - f) + 1]

\* Math.cos of an angle
Cos(a) == CosHalf(2 * a)

\* Math.sin of an angle
Sin(a) == CosHalf(2 * a - 120)

\* Math.abs
Abs(x) == IF x < 0 THEN -x ELSE x

\* Math.min and Math.max
Min2(x, y) == IF x <= y THEN x ELSE y

Max2(x, y) == IF x >= y THEN x ELSE y

\* the JavaScript remainder a % m: it has the sign of a
JsMod(a, m) == IF a >= 0 THEN a % m ELSE -((-a) % m)

\* the quotient of a / b rounded toward zero
Quot(a, b) ==
    IF (a >= 0) = (b > 0) THEN Abs(a) \div Abs(b) ELSE -(Abs(a) \div Abs(b))

\* the product of two fixed-point numbers
Mul(x, y) == Quot(x * y, DScale)

(***************************************************************************)
(* ShapeCalculator: corner rounding                                        *)
(***************************************************************************)
\* ((angle % (2 * Math.PI)) + 2 * Math.PI) % (2 * Math.PI)
WrapAngle(angle) == JsMod(JsMod(angle, TwoPi) + TwoPi, TwoPi)

\* the phase of the first corner for a corner count
angleOffset(corners) ==
    IF corners = 4 THEN 30
    ELSE IF corners = 3 THEN 20
    ELSE IF corners = 5 THEN 24
    ELSE 0

\* the angular distance from angle to a corner angle, the short way round
AngularDistance(angle, cornerAngle) ==
    LET a == Abs(WrapAngle(angle) - cornerAngle) IN
    IF a > Pi THEN TwoPi - a ELSE a

\* the corner angles i * segmentAngle + angleOffset
cornerAngles(corners) ==
    {i * (TwoPi \div corners) + angleOffset(corners) : i \in 0..(corners - 1)}

\* the least angular distance from angle to a corner
minAngularDistance(angle, corners) ==
    LET ds == {AngularDistance(angle, c) : c \in cornerAngles(corners)} IN
    CHOOSE x \in ds : \A y \in ds : x <= y

\* 1 / Math.cos(Math.PI / corners)
calculateDistanceAtCorner(corners) ==
    Quot(DScale * DScale, Cos(Pi \div corners))

\* mutant of applyArcCornerRadius: the falloff is 1 - ratio^2 / 2, which is
\* not 0 at the edge of the effect zone
applyArcCornerRadius_HalfFalloff(distance, angle, cornerRadius, corners) ==
    IF cornerRadius <= 0 THEN distance
    ELSE
    LET segmentAngle == TwoPi \div corners
        minDist == minAngularDistance(angle, corners)
        maxEffect2 == segmentAngle * cornerRadius
    IN
    IF 2 * minDist * DScale > maxEffect2 THEN distance
    ELSE
    LET cornerPointDistance == calculateDistanceAtCorner(corners)
        reductionAmount == Mul(Mul(cornerPointDistance, cornerRadius), 350)
        ratio == Quot(2 * minDist * DScale * DScale, maxEffect2)
        falloff == DScale - Quot(Mul(ratio, ratio), 2)
    IN distance - Mul(reductionAmount, falloff)

applyArcCornerRadius(distance, angle, cornerRadius, corners) ==
    IF cornerRadius <= 0 THEN distance
    ELSE
    LET segmentAngle == TwoPi \div corners
        minDist == minAngularDistance(angle, corners)
        \* maxAngularEffect = (segmentAngle / 2) * cornerRadius, doubled and in 1/DScale
        maxEffect2 == segmentAngle * cornerRadius
    IN
    IF 2 * minDist * DScale > maxEffect2 THEN distance
    ELSE
    LET cornerPointDistance == calculateDistanceAtCorner(corners)
        reductionAmount == Mul(Mul(cornerPointDistance, cornerRadius), 350)
        ratio == Quot(2 * minDist * DScale * DScale, maxEffect2)
        falloff == DScale - Mul(ratio, ratio)
    IN distance - Mul(reductionAmount, falloff)

\* mutant of applyBlendCornerRadius: no early return at full radius
applyBlendCornerRadius_NoFullRadius(distance, angle, cornerRadius, corners) ==
    LET segmentAngle == TwoPi \div corners
        angleInSegment == JsMod(angle, segmentAngle)
        positionInSegment ==
            2 * Min2(Quot(angleInSegment * DScale, segmentAngle),
                     Quot((segmentAngle - angleInSegment) * DScale, segmentAngle))
        blendFactor ==
            Max2(0, Min2(DScale, Quot((DScale - positionInSegment) * DScale, cornerRadius)))
    IN Mul(distance, DScale - blendFactor) + blendFactor

applyBlendCornerRadius(distance, angle, cornerRadius, corners) ==
    IF cornerRadius >= DScale THEN DScale
    ELSE
    LET segmentAngle == TwoPi \div corners
        angleInSegment == JsMod(angle, segmentAngle)
        positionInSegment ==
            2 * Min2(Quot(angleInSegment * DScale, segmentAngle),
                     Quot((segmentAngle - angleInSegment) * DScale, segmentAngle))
        blendFactor ==
            Max2(0, Min2(DScale, Quot((DScale - positionInSegment) * DScale, cornerRadius)))
    IN Mul(distance, DScale - blendFactor) + blendFactor

applyAlternativeCornerRadius(distance, angle, cornerRadius, corners) ==
    IF cornerRadius <= 0 THEN distance
    ELSE
    LET segmentAngle == TwoPi \div corners
        closestCornerDist == minAngularDistance(angle, corners)
        \* cornerEffectRadius = segmentAngle * 0.3 * cornerRadius, times 10 and in 1/DScale
        effectRadius10 == segmentAngle * 3 * cornerRadius
    IN
    IF closestCornerDist * 10 * DScale >= effectRadius10 THEN distance
    ELSE
    LET cornerProximity ==
            DScale - Quot(closestCornerDist * 10 * DScale * DScale, effectRadius10)
        smoothedFactor ==
            Mul(Mul(cornerProximity, cornerProximity), 3 * DScale - 2 * cornerProximity)
        maxReduction == Quot(Mul(distance, cornerRadius), 2)
    IN distance - Mul(maxReduction, smoothedFactor)

\* mutant of applyCornerRadius: the early return is taken for
\* cornerRadius < 0 only; the blend method then divides by 0, the quotient
\* is Infinity and the blend factor is clamped to 1
applyCornerRadius_ZeroNotChecked(distance, angle, cornerRadius, corners, method) ==
    IF cornerRadius < 0 THEN distance
    ELSE IF cornerRadius = 0 /\ method = "blend" THEN DScale
    ELSE
    LET enhancedCornerRadius ==
            IF corners <= 4 THEN Min2(DScale, Quot(cornerRadius * 3, 2)) ELSE cornerRadius
    IN
    IF method = "blend" THEN applyBlendCornerRadius(distance, angle, cornerRadius, corners)
    ELSE IF method = "alternative"
    THEN applyAlternativeCornerRadius(distance, angle, cornerRadius, corners)
    ELSE applyArcCornerRadius(distance, angle, enhancedCornerRadius, corners)

applyCornerRadius(distance, angle, cornerRadius, corners, method) ==
    IF cornerRadius <= 0 THEN distance
    ELSE
    LET enhancedCornerRadius ==
            IF corners <= 4 THEN Min2(DScale, Quot(cornerRadius * 3, 2)) ELSE cornerRadius
    IN
    IF method = "blend" THEN applyBlendCornerRadius(distance, angle, cornerRadius, corners)
    ELSE IF method = "alternative"
    THEN applyAlternativeCornerRadius(distance, angle, cornerRadius, corners)
    ELSE applyArcCornerRadius(distance, angle, enhancedCornerRadius, corners)

(***************************************************************************)
(* ShapeCalculator: the shapes                                             *)
(* A shape function yields [nan |-> FALSE, v |-> distance], or             *)
(* [nan |-> TRUE, v |-> 0] where the JavaScript arithmetic yields NaN.     *)
(***************************************************************************)
Num(v) == [nan |-> FALSE, v |-> v]

NaN == [nan |-> TRUE, v |-> 0]

\* Math.sqrt(3) / 2
TRIANGLE_HEIGHT_FACTOR == 866

calculateCircle == Num(DScale)

\* what the shape functions return for the angle NaN: every comparison with
\* NaN is false and every sum is NaN, only the blend method at full radius
\* returns before it reads the angle
OfNaNAngle(cornerRadius, method) ==
    IF cornerRadius >= DScale /\ method = "blend" THEN Num(DScale) ELSE NaN

\* mutant of calculateStar: innerRadius is not checked
calculateStar_NoInnerCheck(angle, points, innerRadius, cornerRadius, method) ==
    IF points <= 0 THEN Num(DScale)
    ELSE IF angle.nan THEN OfNaNAngle(cornerRadius, method)
    ELSE
    LET oscillation == CosHalf(points * angle.v)
        pointPosition == DScale - Abs(oscillation)
        square == Mul(pointPosition, pointPosition)
        sharpPointPosition == Mul(square, square)
        distance == innerRadius + Mul(sharpPointPosition, DScale - innerRadius)
    IN Num(applyCornerRadius(distance, angle.v, cornerRadius, points, method))

calculateStar(angle, points, innerRadius, cornerRadius, method) ==
    IF points <= 0 THEN Num(DScale)
    ELSE IF innerRadius <= 0 \/ innerRadius >= DScale THEN Num(DScale)
    ELSE IF angle.nan THEN OfNaNAngle(cornerRadius, method)
    ELSE
    LET oscillation == CosHalf(points * angle.v)
        pointPosition == DScale - Abs(oscillation)
        square == Mul(pointPosition, pointPosition)
        sharpPointPosition == Mul(square, square)
        distance == innerRadius + Mul(sharpPointPosition, DScale - innerRadius)
    IN Num(applyCornerRadius(distance, angle.v, cornerRadius, points, method))

calculateTriangle(angle, cornerRadius, method) ==
    IF angle.nan THEN OfNaNAngle(cornerRadius, method)
    ELSE
    LET sectorAngle == TwoPi \div 3
        shiftedAngle == angle.v + 20
        sectorPosition == JsMod(shiftedAngle, sectorAngle)
        cosValue == Cos(Abs(sectorPosition - sectorAngle \div 2))
    IN
    IF Abs(cosValue) < 1 THEN Num(100 * DScale)
    ELSE Num(applyCornerRadius(
                Quot(DScale * DScale * DScale, cosValue * TRIANGLE_HEIGHT_FACTOR),
                shiftedAngle, cornerRadius, 3, method))

calculateSquare(angle, cornerRadius, method) ==
    IF angle.nan THEN OfNaNAngle(cornerRadius, method)
    ELSE
    LET divisor == Max2(Abs(Cos(angle.v)), Abs(Sin(angle.v))) IN
    IF divisor < 1 THEN Num(100 * DScale)
    ELSE Num(applyCornerRadius(Quot(DScale * DScale, divisor),
                               angle.v, cornerRadius, 4, method))

calculatePentagon(angle, cornerRadius, method) ==
    IF angle.nan THEN OfNaNAngle(cornerRadius, method)
    ELSE
    LET sectorAngle == TwoPi \div 5
        shiftedAngle == angle.v + sectorAngle \div 2
        sectorPosition == JsMod(shiftedAngle, sectorAngle)
        apothem == Cos(Pi \div 5)
        cosVal == Cos(Abs(sectorPosition - sectorAngle \div 2))
    IN
    IF Abs(cosVal * apothem) < DScale THEN Num(100 * DScale)
    ELSE Num(applyCornerRadius(Quot(DScale * DScale * DScale, cosVal * apothem),
                               shiftedAngle, cornerRadius, 5, method))

calculateHexagon(angle, cornerRadius, method) ==
    IF angle.nan THEN OfNaNAngle(cornerRadius, method)
    ELSE
    LET sectorAngle == TwoPi \div 6
        sectorPosition == JsMod(angle.v, sectorAngle)
        apothem == Cos(Pi \div 6)
        cosVal == Cos(Abs(sectorPosition - sectorAngle \div 2))
    IN
    IF Abs(cosVal * apothem) < DScale THEN Num(100 * DScale)
    ELSE Num(applyCornerRadius(Quot(DScale * DScale * DScale, cosVal * apothem),
                               angle.v, cornerRadius, 6, method))

(***************************************************************************)
(* ShapeCalculator.getShapeDistance                                        *)
(*                                                                         *)
(* A JavaScript value given as the shape is [t |-> "string", v |-> name],  *)
(* or, when it is no string, [t |-> "other", v |-> its string form], the   *)
(* string a property lookup table[value] makes of it: "undefined" for      *)
(* undefined, "star" for the array ['star'] (a share URL can hold one).    *)
(* A JavaScript value given as the angle is [t |-> "number", k, v] with k  *)
(* one of "fin" (the finite number v), "nan", "inf", "ninf", and "neghuge" *)
(* (a finite negative number of so large a magnitude, such as -1e17, that  *)
(* adding 2*PI rounds back to the number itself); or [t |-> "other"].      *)
(***************************************************************************)
\* String.prototype.toLowerCase on the names in use
toLowerCase(name) ==
    IF name = "SQUARE" THEN "square"
    ELSE IF name = "Star" THEN "star"
    ELSE IF name = "toString" THEN "tostring"
    ELSE name

\* mutant of calculateShape: an unknown name is drawn as a square
calculateShape_DefaultSquare(name, angle, o) ==
    LET n == toLowerCase(name) IN
    IF n = "circle" THEN calculateCircle
    ELSE IF n = "star"
    THEN calculateStar(angle, o.points, o.innerRadius, o.cornerRadius, o.cornerRadiusMethod)
    ELSE IF n = "triangle" THEN calculateTriangle(angle, o.cornerRadius, o.cornerRadiusMethod)
    ELSE IF n = "square" THEN calculateSquare(angle, o.cornerRadius, o.cornerRadiusMethod)
    ELSE IF n = "pentagon" THEN calculatePentagon(angle, o.cornerRadius, o.cornerRadiusMethod)
    ELSE IF n = "hexagon" THEN calculateHexagon(angle, o.cornerRadius, o.cornerRadiusMethod)
    ELSE calculateSquare(angle, o.cornerRadius, o.cornerRadiusMethod)

\* the switch on shape.toLowerCase()
calculateShape(name, angle, o) ==
    LET n == toLowerCase(name) IN
    IF n = "circle" THEN calculateCircle
    ELSE IF n = "star"
    THEN calculateStar(angle, o.points, o.innerRadius, o.cornerRadius, o.cornerRadiusMethod)
    ELSE IF n = "triangle" THEN calculateTriangle(angle, o.cornerRadius, o.cornerRadiusMethod)
    ELSE IF n = "square" THEN calculateSquare(angle, o.cornerRadius, o.cornerRadiusMethod)
    ELSE IF n = "pentagon" THEN calculatePentagon(angle, o.cornerRadius, o.cornerRadiusMethod)
    ELSE IF n = "hexagon" THEN calculateHexagon(angle, o.cornerRadius, o.cornerRadiusMethod)
    ELSE calculateCircle

\* the result check: a NaN or infinite result becomes 1
validateResult(r) == IF r.nan THEN Num(DScale) ELSE r

\* !shape || typeof shape !== 'string'
InvalidShape(shape) == shape.t # "string" \/ shape.v = ""

\* typeof angle !== 'number' || isNaN(angle)
InvalidAngle(angle) == angle.t # "number" \/ angle.k = "nan"

\* normalizedAngle < 0
IsNegative(a) == a.k \in {"ninf", "neghuge"} \/ (a.k = "fin" /\ a.v < 0)

\* normalizedAngle + 2 * Math.PI
AddTwoPi(a) == IF a.k = "fin" THEN [k |-> "fin", v |-> a.v + TwoPi] ELSE a

\* normalizedAngle % (2 * Math.PI), as the argument of the shape functions
ModTwoPi(a) == IF a.k = "fin" THEN Num(JsMod(a.v, TwoPi)) ELSE NaN

\* getShapeDistance: the two parameter checks, then let normalizedAngle = angle
GsdEnter ==
    /\ gPc = "entry"
    /\ IF InvalidShape(gShape) \/ InvalidAngle(gAngle)
       THEN /\ gResult' = Num(DScale)
            /\ gPc' = "done"
            /\ UNCHANGED normalizedAngle
       ELSE /\ normalizedAngle' = [k |-> gAngle.k, v |-> gAngle.v]
            /\ gPc' = "loop"
            /\ UNCHANGED gResult
    /\ UNCHANGED <<gShape, gAngle, gOptions, gTurns>>
    /\ UNCHANGED <<rendererVars, otherVars>>

\* getShapeDistance: one turn of while (normalizedAngle < 0)
GsdLoop ==
    /\ gPc = "loop"
    /\ IsNegative(normalizedAngle)
    /\ normalizedAngle' = AddTwoPi(normalizedAngle)
    /\ gTurns' = (gTurns + 1) % 2
    /\ UNCHANGED <<gShape, gAngle, gOptions, gPc, gResult>>
    /\ UNCHANGED <<rendererVars, otherVars>>

\* getShapeDistance: the loop is left, the shape is computed and returned
GsdCalculate ==
    /\ gPc = "loop"
    /\ ~IsNegative(normalizedAngle)
    /\ gResult' = validateResult(calculateShape(gShape.v, ModTwoPi(normalizedAngle), gOptions))
    /\ gPc' = "done"
    /\ UNCHANGED <<gShape, gAngle, gOptions, normalizedAngle, gTurns>>
    /\ UNCHANGED <<rendererVars, otherVars>>

(***************************************************************************)
(* getShapeDistance as a value, for the callers that use what it returns.  *)
(* The loop is the one of GsdLoop; it is only evaluated on angles for      *)
(* which it ends.                                                          *)
(***************************************************************************)
RECURSIVE NormalizeLoop(_)
NormalizeLoop(a) == IF IsNegative(a) THEN NormalizeLoop(AddTwoPi(a)) ELSE a

getShapeDistance(shape, angle, o) ==
    IF InvalidShape(shape) \/ InvalidAngle(angle) THEN Num(DScale)
    ELSE validateResult(calculateShape(shape.v,
                            ModTwoPi(NormalizeLoop([k |-> angle.k, v |-> angle.v])), o))

(***************************************************************************)
(* ShapeCalculator.normalizeShapeDistance                                  *)
(***************************************************************************)
\* the methods every plain object inherits from Object.prototype
PrototypeMethods ==
    {"constructor", "hasOwnProperty", "isPrototypeOf", "propertyIsEnumerable",
     "toLocaleString", "toString", "valueOf", "__defineGetter__", "__defineSetter__",
     "__lookupGetter__", "__lookupSetter__"}

\* table[name] for a name that is no own key of the plain object table: a
\* method of Object.prototype, Object.prototype itself, or undefined
Inherited(name) ==
    IF name \in PrototypeMethods THEN [t |-> "function", v |-> 0]
    ELSE IF name = "__proto__" THEN [t |-> "object", v |-> 0]
    ELSE [t |-> "undefined", v |-> 0]

\* normalizationFactors[shape]: the own keys of the table, in 1/DScale, and
\* the keys the table inherits; the key is the string form of shape, whether
\* shape is a string or not
normalizationFactors(shape) ==
    IF shape.v = "circle" THEN [t |-> "number", v |-> 1000]
    ELSE IF shape.v = "star" THEN [t |-> "number", v |-> 850]
    ELSE IF shape.v = "triangle" THEN [t |-> "number", v |-> 750]
    ELSE IF shape.v = "square" THEN [t |-> "number", v |-> 750]
    ELSE IF shape.v = "pentagon" THEN [t |-> "number", v |-> 800]
    ELSE IF shape.v = "hexagon" THEN [t |-> "number", v |-> 850]
    ELSE Inherited(shape.v)

\* const factor = normalizationFactors[shape] || 1; return distance * factor
\* (a function or an object is truthy, and the product with it is NaN)
normalizeShapeDistance(shape, distance) ==
    LET f == normalizationFactors(shape)
        factor == IF f.t = "undefined" THEN [t |-> "number", v |-> DScale] ELSE f
    IN
    IF distance.nan \/ factor.t # "number" THEN NaN
    ELSE Num(Mul(distance.v, factor.v))

(***************************************************************************)
(* StarburstRenderer._calculateMorphedDistance                             *)
(*                                                                         *)
(* selectedShapes is [null |-> TRUE, list |-> <<>>] for null or undefined, *)
(* else [null |-> FALSE, list |-> the array]; an element of the array and  *)
(* startShape and endShape are JavaScript values as in getShapeDistance.   *)
(***************************************************************************)
\* selectedShapes[i]: undefined outside the array
ElementAt(list, i) ==
    IF i >= 0 /\ i < Len(list) THEN list[i + 1] ELSE [t |-> "other", v |-> "undefined"]

\* 4 * t^3, the ease-in half, in 1/PScale
easeIn(p) == Quot(4 * p * p * p, PScale * PScale)

\* mutant of easeOut: the ease-out half is 1 - 2 * (1-t)^3
easeOut_Jump(p) ==
    LET invT == PScale - p IN PScale - Quot(2 * invT * invT * invT, PScale * PScale)

\* 1 - 4 * (1-t)^3, the ease-out half
easeOut(p) ==
    LET invT == PScale - p IN PScale - Quot(4 * invT * invT * invT, PScale * PScale)

\* the cubic ease of multiShape mode; twoShape leaves the progress as it is
easedProgress(mode, p) ==
    IF mode # "multiShape" THEN p
    ELSE IF p < 500 THEN easeIn(p)
    ELSE easeOut(p)

\* normalizedStartDist * (1 - easedProgress) + normalizedEndDist * easedProgress
Interpolate(a, b, e) ==
    IF a.nan \/ b.nan THEN NaN
    ELSE Num(Quot(a.v * (PScale - e) + b.v * e, PScale))

\* mutant of MorphedDistance: twoShape mode is eased as well
MorphedDistance_AlwaysEased(o, angle) ==
    IF o.animationMode = "multiShape" /\ o.selectedShapes.null
    THEN [thrown |-> TRUE, result |-> Num(DScale)]
    ELSE
    LET multi == o.animationMode = "multiShape" /\ Len(o.selectedShapes.list) >= 2
        fromShape == IF multi THEN ElementAt(o.selectedShapes.list, o.currentShapeIndex)
                     ELSE o.startShape
        toShape == IF multi THEN ElementAt(o.selectedShapes.list, o.nextShapeIndex)
                   ELSE o.endShape
        go == [cornerRadius |-> o.cornerRadius, cornerRadiusMethod |-> o.cornerRadiusMethod,
               points |-> 5, innerRadius |-> 400]
        startDist == getShapeDistance(fromShape, angle, go)
        endDist == getShapeDistance(toShape, angle, go)
        normalizedStartDist == normalizeShapeDistance(fromShape, startDist)
        normalizedEndDist == normalizeShapeDistance(toShape, endDist)
        eased == easedProgress("multiShape", o.morphProgress)
    IN [thrown |-> FALSE, fromShape |-> fromShape, toShape |-> toShape,
        startDist |-> startDist, endDist |-> endDist,
        normalizedStartDist |-> normalizedStartDist,
        normalizedEndDist |-> normalizedEndDist,
        easedProgress |-> eased,
        result |-> Interpolate(normalizedStartDist, normalizedEndDist, eased)]

\* the body of _calculateMorphedDistance on this.options o: its locals and
\* what it returns; reading .length of a null selectedShapes throws, and the
\* catch returns 1
MorphedDistance(o, angle) ==
    IF o.animationMode = "multiShape" /\ o.selectedShapes.null
    THEN [thrown |-> TRUE, result |-> Num(DScale)]
    ELSE
    LET multi == o.animationMode = "multiShape" /\ Len(o.selectedShapes.list) >= 2
        fromShape == IF multi THEN ElementAt(o.selectedShapes.list, o.currentShapeIndex)
                     ELSE o.startShape
        toShape == IF multi THEN ElementAt(o.selectedShapes.list, o.nextShapeIndex)
                   ELSE o.endShape
        \* { cornerRadius, cornerRadiusMethod }: calculateStar falls back on
        \* its defaults points = 5 and innerRadius = 0.4
        go == [cornerRadius |-> o.cornerRadius, cornerRadiusMethod |-> o.cornerRadiusMethod,
               points |-> 5, innerRadius |-> 400]
        startDist == getShapeDistance(fromShape, angle, go)
        endDist == getShapeDistance(toShape, angle, go)
        normalizedStartDist == normalizeShapeDistance(fromShape, startDist)
        normalizedEndDist == normalizeShapeDistance(toShape, endDist)
        eased == easedProgress(o.animationMode, o.morphProgress)
    IN [thrown |-> FALSE, fromShape |-> fromShape, toShape |-> toShape,
        startDist |-> startDist, endDist |-> endDist,
        normalizedStartDist |-> normalizedStartDist,
        normalizedEndDist |-> normalizedEndDist,
        easedProgress |-> eased,
        result |-> Interpolate(normalizedStartDist, normalizedEndDist, eased)]

\* _calculateMorphedDistance(angle) runs on the options it was called with
CalculateMorphedDistance ==
    /\ morph.pc = "entry"
    /\ morph' = [pc |-> "done"] @@ MorphedDistance(mOptions, mAngle)
    /\ UNCHANGED <<mOptions, mAngle>>
    /\ UNCHANGED <<rendererVars, calculatorVars, cornerVars, testVars, configVars,
                 pageVars>>

(***************************************************************************)
(* One call of applyCornerRadius                                           *)
(***************************************************************************)
ApplyCornerRadius ==
    /\ cPc = "entry"
    /\ cResult' = applyCornerRadius(cArgs.distance, cArgs.angle, cArgs.cornerRadius,
                                    cArgs.corners, cArgs.method)
    /\ cPc' = "done"
    /\ UNCHANGED cArgs
    /\ UNCHANGED <<rendererVars, calculatorVars, morphVars, testVars, configVars,
                 pageVars>>

(***************************************************************************)
(* The animation tick                                                      *)
(***************************************************************************)
\* mutant of progressDelta: a fixed step per frame, whatever time has passed
progressDelta_PerFrame(speed, delta) == speed * 5

\* progressDelta = (animationSpeed / 100) * (delta / 16.67), in 1/PScale
progressDelta(speed, delta) == speed * delta

\* morphProgress is a double and its sums are rounded.  p1 being the exact
\* sum of a frame, the sum the code holds compares with a bound as p1 does,
\* but for a p1 that is on the bound: there the rounding can leave the sum
\* just short of the bound (0.9999999999999981 for 1), and short says so.

\* morphProgress >= 1 on the sum the code holds
AtLeastOne(p1, short) == p1 > PScale \/ (p1 = PScale /\ ~short)

\* morphProgress <= 0 on the sum the code holds
AtMostZero(p1, short) == p1 < 0 \/ (p1 = 0 /\ ~short)

\* the exact sum of a frame
ExactSum(p, dir, mode, speed, delta) ==
    IF mode = "multiShape" THEN p + progressDelta(speed, delta)
    ELSE p + progressDelta(speed, delta) * dir

\* the exact sum is on a bound the branch compares it with
OnBound(p1, mode) == p1 = PScale \/ (mode # "multiShape" /\ p1 = 0)

\* the sum of a frame stays just short of a bound: a sum that adds nothing is
\* short as the progress was, any other can be rounded short (guess) where
\* the exact sum p1 is on a bound
FallsShort(p1, mode, pd, held, guess) ==
    OnBound(p1, mode) /\ (IF pd = 0 THEN held ELSE guess)

\* mutant of TwoShapeStep: the progress is not clamped at 1
TwoShapeStep_NoClamp(p, dir, pd, short) ==
    LET p1 == p + pd * dir IN
    IF AtLeastOne(p1, short) THEN [p |-> p1, dir |-> -1]
    ELSE IF AtMostZero(p1, short) THEN [p |-> 0, dir |-> 1]
    ELSE [p |-> p1, dir |-> dir]

\* mutant of TwoShapeStep: the direction is not turned round at 1
TwoShapeStep_NoFlip(p, dir, pd, short) ==
    LET p1 == p + pd * dir IN
    IF AtLeastOne(p1, short) THEN [p |-> PScale, dir |-> dir]
    ELSE IF AtMostZero(p1, short) THEN [p |-> 0, dir |-> 1]
    ELSE [p |-> p1, dir |-> dir]

\* _animationLoop, two-shape branch: bounce between 0 and 1
TwoShapeStep(p, dir, pd, short) ==
    LET p1 == p + pd * dir IN
    IF AtLeastOne(p1, short) THEN [p |-> PScale, dir |-> -1]
    ELSE IF AtMostZero(p1, short) THEN [p |-> 0, dir |-> 1]
    ELSE [p |-> p1, dir |-> dir]

\* mutant of MultiShapeStep: the next index is not wrapped round
MultiShapeStep_NoWrap(p, cur, nxt, n, pd, short) ==
    LET p1 == p + pd IN
    IF AtLeastOne(p1, short) /\ n >= 2
    THEN [p |-> 0, cur |-> nxt, nxt |-> nxt + 1, adv |-> TRUE]
    ELSE [p |-> p1, cur |-> cur, nxt |-> nxt, adv |-> FALSE]

\* mutant of MultiShapeStep: the current index is not moved on
MultiShapeStep_KeepCurrent(p, cur, nxt, n, pd, short) ==
    LET p1 == p + pd IN
    IF AtLeastOne(p1, short) /\ n >= 2
    THEN [p |-> 0, cur |-> cur, nxt |-> (nxt + 1) % n, adv |-> TRUE]
    ELSE [p |-> p1, cur |-> cur, nxt |-> nxt, adv |-> FALSE]

\* _animationLoop, multi-shape branch: run from 0 to 1, then take the next pair
MultiShapeStep(p, cur, nxt, n, pd, short) ==
    LET p1 == p + pd IN
    IF AtLeastOne(p1, short) /\ n >= 2
    THEN [p |-> 0, cur |-> nxt, nxt |-> (nxt + 1) % n, adv |-> TRUE]
    ELSE [p |-> p1, cur |-> cur, nxt |-> nxt, adv |-> FALSE]

\* the driver part of _animationLoop as a function of the driver state
DriverTick(p, dir, cur, nxt, mode, n, speed, delta, short) ==
    LET pd == progressDelta(speed, delta) IN
    IF mode = "multiShape"
    THEN LET m == MultiShapeStep(p, cur, nxt, n, pd, short) IN
         [p |-> m.p, dir |-> dir, cur |-> m.cur, nxt |-> m.nxt, adv |-> m.adv]
    ELSE LET t == TwoShapeStep(p, dir, pd, short) IN
         [p |-> t.p, dir |-> t.dir, cur |-> cur, nxt |-> nxt, adv |-> FALSE]

\* an animation-frame callback fires: _animationLoop(timestamp); short says
\* that the sum of this frame stays just short of the bound its exact sum is on
AnimationLoop(delta, short, err) ==
    /\ pendingFrames # {}
    /\ short = FallsShort(ExactSum(morphProgress, animationDirection, animationMode,
                                    animationSpeed, delta),
                           animationMode, progressDelta(animationSpeed, delta),
                           sumShort, short)
    /\ \E h \in pendingFrames :
        LET t == DriverTick(morphProgress, animationDirection, currentShapeIndex,
                            nextShapeIndex, animationMode, Len(selectedShapes),
                            animationSpeed, delta, short)
            rest == pendingFrames \ {h}
        IN
        /\ t.p <= MaxProgress /\ t.p >= -MaxProgress
        /\ t.adv => crossings < MaxCrossings
        /\ morphProgress' = t.p
        /\ sumShort' = short
        /\ animationDirection' = t.dir
        /\ currentShapeIndex' = t.cur
        /\ nextShapeIndex' = t.nxt
        /\ crossings' = IF t.adv /\ crossings >= 0 THEN crossings + 1 ELSE crossings
        /\ IF err
           THEN \* catch: stopAnimation()
                /\ pendingFrames' = rest \ {animationFrame}
                /\ animationFrame' = 0
                /\ isAnimating' = FALSE
           ELSE IF isAnimating
           THEN LET f == CHOOSE x \in 1..3 : x \notin rest /\ x # animationFrame IN
                /\ animationFrame' = f
                /\ pendingFrames' = rest \cup {f}
                /\ UNCHANGED isAnimating
           ELSE /\ pendingFrames' = rest
                /\ UNCHANGED <<animationFrame, isAnimating>>
    /\ UNCHANGED <<animationMode, selectedShapes, animationSpeed, checked>>
    /\ UNCHANGED <<calculatorVars, otherVars>>

\* renderer.stopAnimation(): its effect on the frame bookkeeping
StopAnimationEffect ==
    /\ pendingFrames' = pendingFrames \ {animationFrame}
    /\ animationFrame' = 0
    /\ isAnimating' = FALSE

\* mutant of StartAnimationEffect: the frame already requested is not cancelled
StartAnimationEffect_NoCancel ==
    LET f == CHOOSE x \in 1..3 : x \notin pendingFrames /\ x # animationFrame
    IN /\ pendingFrames' = pendingFrames \cup {f}
       /\ animationFrame' = f
       /\ isAnimating' = TRUE

\* renderer.startAnimation(): its effect on the frame bookkeeping
StartAnimationEffect ==
    LET rest == pendingFrames \ {animationFrame}
        f == CHOOSE x \in 1..3 : x \notin rest /\ x # animationFrame
    IN /\ pendingFrames' = rest \cup {f}
       /\ animationFrame' = f
       /\ isAnimating' = TRUE

\* renderer.toggleAnimation(): the Animate button and the Space key
ToggleAnimation ==
    /\ IF ~isAnimating THEN StartAnimationEffect ELSE StopAnimationEffect
    /\ UNCHANGED <<morphProgress, sumShort, animationDirection, animationMode,
                   selectedShapes, currentShapeIndex, nextShapeIndex, animationSpeed,
                   checked, crossings>>
    /\ UNCHANGED <<calculatorVars, otherVars>>

\* renderer.startAnimation() called directly
StartAnimation ==
    /\ StartAnimationEffect
    /\ UNCHANGED <<morphProgress, sumShort, animationDirection, animationMode,
                   selectedShapes, currentShapeIndex, nextShapeIndex, animationSpeed,
                   checked, crossings>>
    /\ UNCHANGED <<calculatorVars, otherVars>>

\* renderer.stopAnimation(): the Escape key
StopAnimation ==
    /\ StopAnimationEffect
    /\ UNCHANGED <<morphProgress, sumShort, animationDirection, animationMode,
                   selectedShapes, currentShapeIndex, nextShapeIndex, animationSpeed,
                   checked, crossings>>
    /\ UNCHANGED <<calculatorVars, otherVars>>

\* the frame bookkeeping of the renderer as a value
FrameState == [isAnimating |-> isAnimating, animationFrame |-> animationFrame,
               pendingFrames |-> pendingFrames]

\* startAnimation() on a frame state
StartAnimationOn(st) ==
    LET rest == st.pendingFrames \ {st.animationFrame}
        f == CHOOSE x \in 1..3 : x \notin rest /\ x # st.animationFrame
    IN [isAnimating |-> TRUE, animationFrame |-> f, pendingFrames |-> rest \cup {f}]

\* mutant of StopAnimationOn: the frame is forgotten but not cancelled
StopAnimationOn_NoCancel(st) ==
    [isAnimating |-> FALSE, animationFrame |-> 0, pendingFrames |-> st.pendingFrames]

\* stopAnimation() on a frame state
StopAnimationOn(st) ==
    [isAnimating |-> FALSE, animationFrame |-> 0,
     pendingFrames |-> st.pendingFrames \ {st.animationFrame}]

\* toggleAnimation() on a frame state: the state it leaves, and in ret the
\* value it returns (this.isAnimating)
ToggleAnimationOn(st) ==
    LET after == IF ~st.isAnimating THEN StartAnimationOn(st) ELSE StopAnimationOn(st)
    IN [st |-> after, ret |-> after.isAnimating]

\* the 'toggleAnimation' test of TestManager: two calls of toggleAnimation,
\* one after the other, on the renderer as it is
ToggleAnimationTest ==
    LET initialState == isAnimating
        one == ToggleAnimationOn(FrameState)
        toggled == one.st.isAnimating # initialState
        two == ToggleAnimationOn(one.st)
    IN /\ isAnimating' = two.st.isAnimating
       /\ animationFrame' = two.st.animationFrame
       /\ pendingFrames' = two.st.pendingFrames
       /\ toggleTest' = [ran |-> TRUE, initialState |-> initialState, toggled |-> toggled,
                         first |-> one.ret, second |-> two.ret]
       /\ UNCHANGED <<morphProgress, sumShort, animationDirection, animationMode,
                      selectedShapes, currentShapeIndex, nextShapeIndex, animationSpeed,
                      checked, crossings>>
       /\ UNCHANGED <<calculatorVars, morphVars, cornerVars, configVars,
                 pageVars>>

(***************************************************************************)
(* Handlers of initialization.js that write the renderer's options         *)
(***************************************************************************)
\* morphProgressSlider 'input': applySetting('morphProgress', value)
MorphSliderInput(v) ==
    /\ morphProgress' = v
    /\ sumShort' = FALSE
    /\ UNCHANGED <<animationDirection, animationMode, selectedShapes, currentShapeIndex,
                   nextShapeIndex, animationSpeed, isAnimating, animationFrame,
                   pendingFrames, checked, crossings>>
    /\ UNCHANGED <<calculatorVars, otherVars>>

\* animationSpeedSlider 'input': applySetting('animationSpeed', value)
AnimationSpeedInput(s) ==
    /\ s > 0
    /\ s # animationSpeed
    /\ animationSpeed' = s
    /\ UNCHANGED <<morphProgress, sumShort, animationDirection, animationMode,
                   selectedShapes, currentShapeIndex, nextShapeIndex, isAnimating, animationFrame,
                   pendingFrames, checked, crossings>>
    /\ UNCHANGED <<calculatorVars, otherVars>>

\* the checked boxes of c, in document order
CheckedList(c) == SelectSeq(ShapeBoxes, LAMBDA b : c[b])

DefaultShapes == {"circle", "star"}

\* mutant of CollectShapes: the default shapes are not added
CollectShapes_NoDefaults(c) == CheckedList(c)

\* the list updateSelectedShapes builds from the checkboxes c
CollectShapes(c) ==
    LET picked == CheckedList(c) IN
    IF Len(picked) < 2
    THEN picked \o SelectSeq(ShapeBoxes,
                     LAMBDA b : b \in DefaultShapes /\ ~c[b])
    ELSE picked

\* the checkboxes after updateSelectedShapes ran on c
CollectChecks(c) ==
    IF Len(CheckedList(c)) < 2
    THEN [b \in BoxNames |-> c[b] \/ b \in DefaultShapes]
    ELSE c

\* mutant of UpdateSelectedShapes: the indices are left where they are
UpdateSelectedShapes_KeepIndices(c) ==
    /\ selectedShapes' = CollectShapes(c)
    /\ checked' = CollectChecks(c)
    /\ UNCHANGED <<currentShapeIndex, nextShapeIndex>>
    /\ morphProgress' = 0
    /\ sumShort' = FALSE
    /\ crossings' = 0

\* updateSelectedShapes(), run on the checkboxes c
UpdateSelectedShapes(c) ==
    /\ selectedShapes' = CollectShapes(c)
    /\ checked' = CollectChecks(c)
    /\ currentShapeIndex' = 0
    /\ nextShapeIndex' = 1
    /\ morphProgress' = 0
    /\ sumShort' = FALSE
    /\ crossings' = 0

\* a shape checkbox 'change'
ShapeCheckboxChange(b) ==
    /\ UpdateSelectedShapes([checked EXCEPT ![b] = ~checked[b]])
    /\ UNCHANGED <<animationDirection, animationMode, animationSpeed, isAnimating,
                   animationFrame, pendingFrames>>
    /\ UNCHANGED <<calculatorVars, otherVars>>

\* animationModeSelect 'change'
AnimationModeChange(m) ==
    /\ animationMode' = m
    /\ IF m = "multiShape"
       THEN UpdateSelectedShapes(checked)
       ELSE UNCHANGED <<selectedShapes, checked, currentShapeIndex, nextShapeIndex,
                        morphProgress, sumShort, crossings>>
    /\ UNCHANGED <<animationDirection, animationSpeed, isAnimating, animationFrame,
                   pendingFrames>>
    /\ UNCHANGED <<calculatorVars, otherVars>>

\* mutant of ResetClick: the reset also restores the direction
ResetClick_ResetsDirection ==
    /\ StopAnimationEffect
    /\ morphProgress' = 0
    /\ sumShort' = FALSE
    /\ animationSpeed' = 4
    /\ animationMode' = "twoShape"
    /\ selectedShapes' = <<"triangle", "circle">>
    /\ currentShapeIndex' = 0
    /\ nextShapeIndex' = 1
    /\ checked' = [b \in BoxNames |-> b \in {"triangle", "circle"}]
    /\ crossings' = 0
    /\ animationDirection' = 1
    /\ fontFamily' = "metropolis"
    /\ textCase' = "normal"
    /\ UNCHANGED <<caseToggleActive, caseToggleModified, caseIconActive,
                   activeFontButton, activeFontIcon>>
    /\ UNCHANGED <<calculatorVars, morphVars, cornerVars, testVars, configVars,
                   loggerVars, resizeVars>>

\* resetBtn 'click'
ResetClick ==
    /\ StopAnimationEffect
    /\ morphProgress' = 0
    /\ sumShort' = FALSE
    /\ animationSpeed' = 4
    /\ animationMode' = "twoShape"
    /\ selectedShapes' = <<"triangle", "circle">>
    /\ currentShapeIndex' = 0
    /\ nextShapeIndex' = 1
    /\ checked' = [b \in BoxNames |-> b \in {"triangle", "circle"}]
    /\ crossings' = 0
    /\ UNCHANGED animationDirection
    /\ fontFamily' = "metropolis"
    /\ textCase' = "normal"
    /\ UNCHANGED <<caseToggleActive, caseToggleModified, caseIconActive,
                   activeFontButton, activeFontIcon>>
    /\ UNCHANGED <<calculatorVars, morphVars, cornerVars, testVars, configVars,
                   loggerVars, resizeVars>>

\* no getShapeDistance call under way
CalculatorIdle ==
    /\ gShape = [t |-> "string", v |-> "circle"]
    /\ gAngle = [t |-> "number", k |-> "fin", v |-> 0]
    /\ gOptions = [cornerRadius |-> 0, cornerRadiusMethod |-> "arc",
                   points |-> 5, innerRadius |-> 400]
    /\ gPc = "idle"
    /\ normalizedAngle = [k |-> "fin", v |-> 0]
    /\ gResult = [nan |-> FALSE, v |-> 0]
    /\ gTurns = 0

(***************************************************************************)
(* Logger                                                                  *)
(*                                                                         *)
(* The Logger is looked at one call at a time, as the distance functions   *)
(* are: a call is made on a Logger in some state (loggerThis) and leaves   *)
(* it in another (loggerResult).  The log calls the renderer, the          *)
(* calculator and the page make on their way are not part of the model.    *)
(*                                                                         *)
(* currentLogLevel is [t, v]: the number v, or a function or an object     *)
(* when a name that Object.prototype holds was looked up in LOG_LEVELS.    *)
(* An entry of the history is [timestamp, level, message]; clock is the    *)
(* time new Date() gives, in ms, which two calls one after the other can   *)
(* find the same.                                                          *)
(***************************************************************************)
MAX_HISTORY == 50

\* LOG_LEVELS[name]: the own keys of the table, and the keys it inherits
LOG_LEVELS(name) ==
    IF name = "DEBUG" THEN [t |-> "number", v |-> 0]
    ELSE IF name = "INFO" THEN [t |-> "number", v |-> 1]
    ELSE IF name = "WARN" THEN [t |-> "number", v |-> 2]
    ELSE IF name = "ERROR" THEN [t |-> "number", v |-> 3]
    ELSE Inherited(name)

\* currentLogLevel <= LOG_LEVELS.X: a function or an object compares as NaN,
\* never <=
LevelAllows(current, name) == current.t = "number" /\ current.v <= LOG_LEVELS(name).v

\* addToHistory: unshift the entry, pop the last one beyond MAX_HISTORY
addToHistory(history, entry) ==
    LET longer == <<entry>> \o history IN
    IF Len(longer) > MAX_HISTORY THEN SubSeq(longer, 1, Len(longer) - 1) ELSE longer

\* the entry addToHistory makes: timestamp: new Date()
LogEntry(clock, level, message) ==
    [timestamp |-> clock, level |-> level, message |-> message]

\* the closure of the Logger: its level and its history, and the time of
\* the call
LoggerState(level, history, clock) ==
    [currentLogLevel |-> level, logHistory |-> history, clock |-> clock]

\* Logger.debug / info / warn / error (message), level being the method's level
log(this, level, message) ==
    IF LevelAllows(this.currentLogLevel, level)
    THEN LoggerState(this.currentLogLevel,
                     addToHistory(this.logHistory, LogEntry(this.clock, level, message)),
                     this.clock)
    ELSE this

\* Logger.setLogLevel(level): a level that LOG_LEVELS holds is taken and
\* this.info reports it; any other is reported on the console alone
setLogLevel(this, level) ==
    IF LOG_LEVELS(level).t # "undefined"
    THEN log(LoggerState(LOG_LEVELS(level), this.logHistory, this.clock),
             "INFO", "Log level set to " \o level)
    ELSE this

\* Logger.clearHistory()
clearHistory(this) == LoggerState(this.currentLogLevel, <<>>, this.clock)

\* cap on the Logger calls made one after the other
MaxLogCalls == 3

\* the history after n calls of Logger.info at the level the Logger starts
\* with, two in every ms
InfoHistory(n) == [i \in 1..n |-> LogEntry((n + 1 - i) \div 2, "INFO", "started")]

\* the ms that can pass between two calls
Elapsed == {0, 1}

\* the Logger this, found after ms more
Later(this, ms) == LoggerState(this.currentLogLevel, this.logHistory, this.clock + ms)

\* the keys of LOG_LEVELS
KnownLevels == {"DEBUG", "INFO", "WARN", "ERROR"}

\* entries logged with Logger.info before the call looked at
StartedEntries == {0, 49, 50}

\* states a first call can find the Logger in
LoggerStates ==
    {LoggerState(LOG_LEVELS(level), InfoHistory(n), n \div 2) :
        level \in KnownLevels, n \in StartedEntries}

\* the Logger a call is made on: one of LoggerStates, or the Logger as the
\* call before left it
Receivers == IF loggerPc.at = "idle" THEN LoggerStates ELSE {loggerResult}

\* Logger.debug / info / warn / error (message): the call and its return
LogCall(level, message) ==
    /\ loggerPc.calls < MaxLogCalls
    /\ \E r \in Receivers, ms \in Elapsed :
          LET this == Later(r, ms) IN
          /\ loggerThis' = this
          /\ loggerResult' = log(this, level, message)
    /\ loggerCall' = [method |-> level, arg |-> message]
    /\ loggerPc' = [at |-> "done", calls |-> loggerPc.calls + 1]
    /\ UNCHANGED <<rendererVars, calculatorVars, morphVars, cornerVars, testVars,
                   configVars, resizeVars, typographyVars>>

\* Logger.setLogLevel(level): the call and its return
SetLogLevel(level) ==
    /\ loggerPc.calls < MaxLogCalls
    /\ \E r \in Receivers, ms \in Elapsed :
          LET this == Later(r, ms) IN
          /\ loggerThis' = this
          /\ loggerResult' = setLogLevel(this, level)
    /\ loggerCall' = [method |-> "setLogLevel", arg |-> level]
    /\ loggerPc' = [at |-> "done", calls |-> loggerPc.calls + 1]
    /\ UNCHANGED <<rendererVars, calculatorVars, morphVars, cornerVars, testVars,
                   configVars, resizeVars, typographyVars>>

\* Logger.clearHistory(): the call and its return
ClearHistory ==
    /\ loggerPc.calls < MaxLogCalls
    /\ \E this \in Receivers :
          /\ loggerThis' = this
          /\ loggerResult' = clearHistory(this)
    /\ loggerCall' = [method |-> "clearHistory", arg |-> ""]
    /\ loggerPc' = [at |-> "done", calls |-> loggerPc.calls + 1]
    /\ UNCHANGED <<rendererVars, calculatorVars, morphVars, cornerVars, testVars,
                   configVars, resizeVars, typographyVars>>

\* no Logger call has been made
LoggerIdle ==
    /\ loggerThis = LoggerState(LOG_LEVELS("INFO"), <<>>, 0)
    /\ loggerCall = [method |-> "INFO", arg |-> ""]
    /\ loggerPc = [at |-> "idle", calls |-> 0]
    /\ loggerResult = LoggerState(LOG_LEVELS("INFO"), <<>>, 0)

(***************************************************************************)
(* StarburstRenderer._debouncedResize                                      *)
(***************************************************************************)
\* the delay of the resize timer: 250 ms, in units of 50 ms
RESIZE_DELAY == 5

\* cap on the time
MaxTime == 12

\* setTimeout: an id that no pending timer has and that differs from the last
FreshTimer(pending, last) ==
    CHOOSE x \in 1..3 : x # last /\ \A t \in pending : t.id # x

\* clearTimeout(id)
ClearTimeout(pending, id) == {t \in pending : t.id # id}

\* mutant of DebouncedResize: the timer already set is not cleared
DebouncedResize_NoClear ==
    LET f == FreshTimer(timers, resizeTimeout) IN
    /\ timers' = timers \cup {[id |-> f, due |-> now + RESIZE_DELAY]}
    /\ resizeTimeout' = f

\* _debouncedResize(): clear the timer that is set, set a new one
DebouncedResize ==
    LET rest == IF resizeTimeout # 0 THEN ClearTimeout(timers, resizeTimeout) ELSE timers
        f == FreshTimer(rest, resizeTimeout)
    IN /\ timers' = rest \cup {[id |-> f, due |-> now + RESIZE_DELAY]}
       /\ resizeTimeout' = f

\* an event at this time begins a burst: no event came in the RESIZE_DELAY
\* before it
BeginsBurst == lastResizeEvent = -1 \/ now - lastResizeEvent >= RESIZE_DELAY

\* a window 'resize' event: the listener runs _debouncedResize.  setTimeout
\* gives the least delay only, so the event can find the timer of the burst
\* before still set, and clears it.
WindowResize ==
    /\ DebouncedResize
    /\ bursts' = IF BeginsBurst THEN bursts + 1 ELSE bursts
    /\ dropped' = IF BeginsBurst /\ timers # {} THEN dropped + 1 ELSE dropped
    /\ lastResizeEvent' = now
    /\ UNCHANGED <<now, resizes, lastResizeDelay>>
    /\ UNCHANGED <<rendererVars, calculatorVars, morphVars, cornerVars, testVars,
                   configVars, loggerVars, typographyVars>>

\* the timer fires, when it is due or later: _resizeCanvas() and render() run
ResizeTimerFires ==
    /\ \E t \in timers :
          /\ t.due <= now
          /\ timers' = timers \ {t}
    /\ resizes' = resizes + 1
    /\ lastResizeDelay' = now - lastResizeEvent
    /\ UNCHANGED <<now, resizeTimeout, lastResizeEvent, bursts, dropped>>
    /\ UNCHANGED <<rendererVars, calculatorVars, morphVars, cornerVars, testVars,
                   configVars, loggerVars, typographyVars>>

\* 50 ms pass
TimePasses ==
    /\ now < MaxTime
    /\ now' = now + 1
    /\ UNCHANGED <<resizeTimeout, timers, lastResizeEvent, bursts, dropped, resizes,
                   lastResizeDelay>>
    /\ UNCHANGED <<rendererVars, calculatorVars, morphVars, cornerVars, testVars,
                   configVars, loggerVars, typographyVars>>

\* no resize event yet, no timer set
ResizeIdle ==
    /\ now = 0
    /\ resizeTimeout = 0
    /\ timers = {}
    /\ lastResizeEvent = -1
    /\ bursts = 0
    /\ dropped = 0
    /\ resizes = 0
    /\ lastResizeDelay = -1

(***************************************************************************)
(* The typography controls of initialization.js                            *)
(***************************************************************************)
\* the fonts of the font buttons and of the font icons
FontFamilies == {"metropolis", "worksans", "oswald", "roboto", "crimsonpro",
                 "saintdelafield", "herrvon", "rougescript"}

handwritingFonts == {"saintdelafield", "herrvon", "rougescript"}

\* what both font handlers do to the text-case toggle once the font is set:
\* a handwriting font switches an active toggle off and sets textCase to
\* 'normal'
AfterFontChoice(font) ==
    IF font \in handwritingFonts
    THEN /\ IF caseToggleActive
            THEN /\ caseToggleActive' = FALSE
                 /\ textCase' = "normal"
            ELSE UNCHANGED <<caseToggleActive, textCase>>
         /\ caseToggleModified' = TRUE
    ELSE /\ caseToggleModified' = FALSE
         /\ UNCHANGED <<caseToggleActive, textCase>>

\* a font button 'click'
FontButtonClick(font) ==
    /\ activeFontButton' = font
    /\ fontFamily' = font
    /\ AfterFontChoice(font)
    /\ UNCHANGED <<caseIconActive, activeFontIcon>>
    /\ UNCHANGED <<rendererVars, calculatorVars, morphVars, cornerVars, testVars,
                   configVars, loggerVars, resizeVars>>

\* textCaseToggle 'click'
TextCaseToggleClick ==
    /\ caseToggleActive' = ~caseToggleActive
    /\ textCase' = IF ~caseToggleActive THEN "uppercase" ELSE "normal"
    /\ UNCHANGED <<fontFamily, caseToggleModified, caseIconActive, activeFontButton,
                   activeFontIcon>>
    /\ UNCHANGED <<rendererVars, calculatorVars, morphVars, cornerVars, testVars,
                   configVars, loggerVars, resizeVars>>

\* a typography icon 'click', the icon being a font
FontIconClick(type) ==
    /\ activeFontIcon' = type
    /\ fontFamily' = type
    /\ activeFontButton' = type
    /\ AfterFontChoice(type)
    /\ UNCHANGED caseIconActive
    /\ UNCHANGED <<rendererVars, calculatorVars, morphVars, cornerVars, testVars,
                   configVars, loggerVars, resizeVars>>

\* a typography icon 'click', the icon being 'case': camelcase for a
\* handwriting font, uppercase for any other
CaseIconClick ==
    /\ caseIconActive' = ~caseIconActive
    /\ textCase' = IF ~caseIconActive
                   THEN (IF fontFamily \in handwritingFonts THEN "camelcase"
                         ELSE "uppercase")
                   ELSE "normal"
    /\ caseToggleActive' = ~caseIconActive
    /\ UNCHANGED <<fontFamily, caseToggleModified, activeFontButton, activeFontIcon>>
    /\ UNCHANGED <<rendererVars, calculatorVars, morphVars, cornerVars, testVars,
                   configVars, loggerVars, resizeVars>>

\* the typography controls as the document has them: the page start does
\* not bring them in line with the settings it has merged
ControlsIdle ==
    /\ caseToggleActive = FALSE
    /\ caseToggleModified = FALSE
    /\ caseIconActive = FALSE
    /\ activeFontButton = "metropolis"
    /\ activeFontIcon = ""

\* the default typography settings and the controls
TypographyIdle ==
    /\ fontFamily = "metropolis"
    /\ textCase = "normal"
    /\ ControlsIdle

\* the font and the text case the page starts with: the defaults, the font
\* a click before has left in the stored settings or the cookie, or a font
\* and a case from the URL
StartTypography ==
    {<<"metropolis", "normal">>, <<"herrvon", "normal">>, <<"herrvon", "uppercase">>}

\* the typography settings and the controls as the page starts
TypographyStart ==
    /\ \E st \in StartTypography : fontFamily = st[1] /\ textCase = st[2]
    /\ ControlsIdle

\* the Logger, the resize handler and the typography at their defaults
PageIdle == LoggerIdle /\ ResizeIdle /\ TypographyIdle

\* the Logger, the resize handler and the typography as the page starts
PageStart == LoggerIdle /\ ResizeIdle /\ TypographyStart

(***************************************************************************)
(* ConfigManager: validateSettings, saveSettings, loadSettings             *)
(*                                                                         *)
(* The calls are looked at on their own, as the distance functions are:   *)
(* config holds where a run of calls stands, the item of localStorage the  *)
(* run works on (config.storage) and what the calls returned.  What the    *)
(* page itself keeps in localStorage and in the cookie (Share button, the  *)
(* 30 s interval, the tests run at the start) is not part of the model;    *)
(* the settings a page start merges from there are inputs of Init.         *)
(*                                                                         *)
(* The source holds two copies of the ConfigManager, the one of part_002   *)
(* and an older one in modules.js; config.copy says which of them the run  *)
(* of calls is made on.                                                    *)
(*                                                                         *)
(* A JavaScript value is [t, n, s, l]: t is "undefined", "number" (n, in   *)
(* 1/1000), "string" (s) or "array" (l, of strings).  A settings object    *)
(* maps every key to a value; a key it does not hold maps to Absent.       *)
(***************************************************************************)
Absent == [t |-> "undefined", n |-> 0, s |-> "", l |-> <<>>]

NumberV(n) == [t |-> "number", n |-> n, s |-> "", l |-> <<>>]

StringV(str) == [t |-> "string", n |-> 0, s |-> str, l |-> <<>>]

ArrayV(list) == [t |-> "array", n |-> 0, s |-> "", l |-> list]

\* the keys in use
SettingKeys == {"numLines", "lineThickness", "innerRadiusRatio", "rotation",
                "canvasRotation", "scale", "morphProgress", "startShape", "endShape",
                "centerColor", "outerColor", "backgroundColor", "animationSpeed",
                "animationMode", "selectedShapes", "testIdentifier"}

\* the two copies of the ConfigManager
ConfigCopies == {"part_002", "modules.js"}

\* SERIALIZABLE_SETTINGS, as far as the keys in use go: the copy of
\* modules.js has no 'canvasRotation'
SERIALIZABLE_SETTINGS(copy) ==
    {"numLines", "lineThickness", "innerRadiusRatio", "rotation", "scale",
     "morphProgress", "startShape", "endShape", "centerColor", "outerColor",
     "backgroundColor", "animationSpeed", "animationMode", "selectedShapes"}
        \cup (IF copy = "part_002" THEN {"canvasRotation"} ELSE {})

EmptySettings == [k \in SettingKeys |-> Absent]

\* parseInt of a number: its integer part
parseInt(n) == Quot(n, 1000) * 1000

\* x || d for a number x: 0 (and NaN) give d
OrDefault(x, d) == IF x = 0 THEN d ELSE x

\* Math.max(lo, Math.min(hi, x))
Clamp(lo, hi, x) == Max2(lo, Min2(hi, x))

\* parseFloat(value) || d, or parseInt(value) || d, for the values in use: a
\* string that is no number and an array of names parse to NaN
ParsedOr(v, int, d) ==
    IF v.t = "number" THEN OrDefault(IF int THEN parseInt(v.n) ELSE v.n, d) ELSE d

validShapes == {"circle", "star", "triangle", "square", "pentagon", "hexagon"}

\* selectedShapes.filter(shape => validShapes.includes(shape)), and the
\* default pair when fewer than 2 are left
FilterShapes(list) ==
    LET kept == SelectSeq(list, LAMBDA x : x \in validShapes) IN
    IF Len(kept) < 2 THEN <<"circle", "star">> ELSE kept

\* validateSettings: the JSON copy drops the keys whose value is undefined;
\* a numeric key that is present is parsed, defaulted and clamped.  The copy
\* of modules.js has no clamp for canvasRotation and none for animationSpeed.
validateSettings(copy, settings) ==
    [k \in SettingKeys |->
        LET v == settings[k] IN
        IF v.t = "undefined" THEN Absent
        ELSE IF k = "numLines" THEN NumberV(Clamp(10000, 200000, ParsedOr(v, TRUE, 60000)))
        ELSE IF k = "lineThickness" THEN NumberV(Clamp(500, 5000, ParsedOr(v, FALSE, 1500)))
        ELSE IF k = "innerRadiusRatio" THEN NumberV(Clamp(0, 900, ParsedOr(v, FALSE, 0)))
        ELSE IF k = "rotation" THEN NumberV(Clamp(0, 360000, ParsedOr(v, TRUE, 0)))
        ELSE IF k = "canvasRotation" /\ copy = "part_002"
        THEN NumberV(Clamp(0, 360000, ParsedOr(v, TRUE, 0)))
        ELSE IF k = "scale" THEN NumberV(Clamp(100, 2000, ParsedOr(v, FALSE, 1000)))
        ELSE IF k = "morphProgress" THEN NumberV(Clamp(0, 1000, ParsedOr(v, FALSE, 500)))
        ELSE IF k = "animationSpeed" /\ copy = "part_002"
        THEN NumberV(Clamp(500, 5000, ParsedOr(v, FALSE, 2000)))
        ELSE IF k = "selectedShapes" /\ v.t = "array" THEN ArrayV(FilterShapes(v.l))
        ELSE v]

\* the storableSettings of saveSettings
storableSettings(copy, settings) ==
    LET validSettings == validateSettings(copy, settings) IN
    [k \in SettingKeys |->
        IF k \in SERIALIZABLE_SETTINGS(copy) THEN validSettings[k] ELSE Absent]

\* saveSettings(settingsArg): localStorage.setItem may throw (no room, storage
\* switched off); the catch returns false
SaveSettings(throws) ==
    /\ config.pc = "save"
    /\ IF throws
       THEN config' = [config EXCEPT !.pc = "saved", !.saved = FALSE]
       ELSE config' = [config EXCEPT !.pc = "saved", !.saved = TRUE,
                                     !.storage = [present |-> TRUE,
                                                  obj |-> storableSettings(config.copy,
                                                                          settingsArg)]]
    /\ UNCHANGED settingsArg
    /\ UNCHANGED <<rendererVars, calculatorVars, morphVars, cornerVars, testVars,
                 pageVars>>

\* loadSettings(): null when nothing is stored, else the parsed object
LoadSettings ==
    /\ config.pc = "saved"
    /\ config' = [config EXCEPT !.pc = "loaded",
                                !.loaded = [null |-> ~config.storage.present,
                                            obj |-> config.storage.obj]]
    /\ UNCHANGED settingsArg
    /\ UNCHANGED <<rendererVars, calculatorVars, morphVars, cornerVars, testVars,
                 pageVars>>

\* String(x) of a number: the integer part, then the decimals that are not
\* trailing zeros
NumberText(n) ==
    LET a == IF n < 0 THEN -n ELSE n
        f == a % 1000
        d1 == f \div 100
        d2 == (f \div 10) % 10
        d3 == f % 10
    IN (IF n < 0 THEN "-" ELSE "") \o ToString(a \div 1000) \o
       (IF f = 0 THEN ""
        ELSE "." \o ToString(d1) \o
             (IF d2 = 0 /\ d3 = 0 THEN ""
              ELSE ToString(d2) \o (IF d3 = 0 THEN "" ELSE ToString(d3))))

\* the form encoding of URLSearchParams.toString for the strings in use: the
\* '#' of a color is written %23, letters and digits are kept
FormEncode(str) ==
    IF str = "#ff0000" THEN "%23ff0000"
    ELSE IF str = "#00ff00" THEN "%2300ff00"
    ELSE IF str = "#000000" THEN "%23000000"
    ELSE str

\* JSON.stringify of an array of names, form encoded: [ is %5B, " is %22,
\* , is %2C and ] is %5D
RECURSIVE JsonNames(_)
JsonNames(list) ==
    IF list = <<>> THEN ""
    ELSE "%22" \o FormEncode(Head(list)) \o "%22" \o
         (IF Len(list) = 1 THEN "" ELSE "%2C" \o JsonNames(Tail(list)))

\* the text that params.append(key, value) puts behind "key="
ParamText(v) ==
    IF v.t = "number" THEN NumberText(v.n)
    ELSE IF v.t = "string" THEN FormEncode(v.s)
    ELSE IF v.t = "array" THEN "%5B" \o JsonNames(v.l) \o "%5D"
    ELSE "undefined"

\* if (value): undefined, 0 and the empty string are falsy
Truthy(v) ==
    \/ v.t = "number" /\ v.n # 0
    \/ v.t = "string" /\ v.s # ""
    \/ v.t = "array"

\* the keys createShareableURL appends when their value is truthy, in the
\* order of the code: the copy of modules.js has no 'canvasRotation'
SharedKeys(copy) ==
    SelectSeq(<<"numLines", "lineThickness", "innerRadiusRatio", "rotation",
                "canvasRotation", "scale", "morphProgress", "startShape", "endShape",
                "centerColor", "outerColor", "backgroundColor", "animationSpeed",
                "animationMode">>,
              LAMBDA k : k # "canvasRotation" \/ copy = "part_002")

\* whether createShareableURL appends the key k of the validated settings
AppendsParam(k, v) == Truthy(v)

RECURSIVE ParamsFrom(_, _)
ParamsFrom(keys, validSettings) ==
    IF keys = <<>> THEN <<>>
    ELSE LET k == Head(keys)
             v == validSettings[k]
         IN (IF AppendsParam(k, v) THEN <<k \o "=" \o ParamText(v)>> ELSE <<>>) \o
            ParamsFrom(Tail(keys), validSettings)

\* createShareableURL(settings): the parameters of the query string, in order
createShareableURL(copy, settings) ==
    LET validSettings == validateSettings(copy, settings)
        shapes == validSettings["selectedShapes"]
    IN ParamsFrom(SharedKeys(copy), validSettings) \o
       (IF shapes.t = "array" THEN <<"selectedShapes=" \o ParamText(shapes)>> ELSE <<>>)

\* createShareableURL(settingsArg) returns
CreateShareableURL ==
    /\ config.pc = "share"
    /\ config' = [config EXCEPT !.pc = "shared",
                                !.url = createShareableURL(config.copy, settingsArg)]
    /\ UNCHANGED settingsArg
    /\ UNCHANGED <<rendererVars, calculatorVars, morphVars, cornerVars, testVars,
                 pageVars>>

\* no run of ConfigManager calls is looked at
ConfigIdle ==
    /\ settingsArg = Absent
    /\ config = [pc |-> "none"]

\* no call of _calculateMorphedDistance or applyCornerRadius is under way, no
\* test has run
CallsIdle ==
    /\ mOptions = [startShape |-> [t |-> "string", v |-> "star"],
                   endShape |-> [t |-> "string", v |-> "circle"],
                   morphProgress |-> 0, animationMode |-> "twoShape",
                   selectedShapes |-> [null |-> FALSE, list |-> <<>>],
                   currentShapeIndex |-> 0, nextShapeIndex |-> 1,
                   cornerRadius |-> 0, cornerRadiusMethod |-> "arc"]
    /\ mAngle = [t |-> "number", k |-> "fin", v |-> 0]
    /\ morph = [pc |-> "idle"]
    /\ cArgs = [distance |-> 0, angle |-> 0, cornerRadius |-> 0, corners |-> 4,
                method |-> "arc"]
    /\ cPc = "idle"
    /\ cResult = 0
    /\ toggleTest = [ran |-> FALSE, initialState |-> FALSE, toggled |-> FALSE,
                     first |-> FALSE, second |-> FALSE]

OthersIdle == CallsIdle /\ ConfigIdle /\ PageIdle

OthersAtStart == CallsIdle /\ ConfigIdle /\ PageStart

(***************************************************************************)
(* The renderer with its controls                                          *)
(***************************************************************************)
Init ==
    /\ morphProgress \in StartProgress
    /\ sumShort = FALSE
    /\ animationDirection = 1
    /\ animationMode \in Modes
    /\ selectedShapes \in UrlShapeLists
    /\ \E ix \in UrlIndices : currentShapeIndex = ix[1] /\ nextShapeIndex = ix[2]
    /\ animationSpeed \in Speeds
    /\ isAnimating = FALSE
    /\ animationFrame = 0
    /\ pendingFrames = {}
    /\ \/ \* settings from the URL: a list of two or more is shown in the boxes
          checked = [b \in BoxNames |->
                      IF Len(selectedShapes) >= 2
                      THEN \E i \in 1..Len(selectedShapes) : selectedShapes[i] = b
                      ELSE b \in {"triangle", "circle"}]
       \/ \* settings from storage: the boxes stay as the page has them
          /\ selectedShapes \in StoredShapeLists
          /\ currentShapeIndex = 0 /\ nextShapeIndex = 1
          /\ checked = [b \in BoxNames |-> b \in {"triangle", "circle"}]
    /\ crossings = IF currentShapeIndex = 0 /\ nextShapeIndex = 1 THEN 0 ELSE -1
    /\ CalculatorIdle
    /\ OthersAtStart

Next ==
    \/ \E d \in Deltas, sh \in BOOLEAN, e \in BOOLEAN : AnimationLoop(d, sh, e)
    \/ ToggleAnimation
    \/ StartAnimation
    \/ StopAnimation
    \/ \E v \in SliderValues : MorphSliderInput(v)
    \/ \E s \in Speeds : AnimationSpeedInput(s)
    \/ \E b \in BoxNames : ShapeCheckboxChange(b)
    \/ \E m \in Modes : AnimationModeChange(m)
    \/ ResetClick

Spec == Init /\ [][Next]_vars

(***************************************************************************)
(* A running two-shape animation: the frames keep coming, the time between *)
(* two frames is positive and the speed slider stays in its positive range *)
(***************************************************************************)
LiveSpeeds == {1, 4, 10}

LiveDeltas == {5, 15, 50}

LiveInit ==
    /\ morphProgress = 0
    /\ sumShort = FALSE
    /\ animationDirection = 1
    /\ animationMode = "twoShape"
    /\ selectedShapes = <<"triangle", "circle">>
    /\ currentShapeIndex = 0
    /\ nextShapeIndex = 1
    /\ animationSpeed \in LiveSpeeds
    /\ isAnimating = TRUE
    /\ animationFrame = 1
    /\ pendingFrames = {1}
    /\ checked = [b \in BoxNames |-> b \in {"triangle", "circle"}]
    /\ crossings = 0
    /\ CalculatorIdle
    /\ OthersAtStart

LiveTick == \E d \in LiveDeltas, sh \in BOOLEAN : AnimationLoop(d, sh, FALSE)

LiveNext ==
    \/ LiveTick
    \/ \E s \in LiveSpeeds : AnimationSpeedInput(s)

\* while isAnimating holds, _animationLoop requests the next frame and the
\* browser delivers it
LiveSpec == LiveInit /\ [][LiveNext]_vars /\ WF_vars(LiveTick)

(***************************************************************************)
(* One call of getShapeDistance on a renderer at rest                      *)
(***************************************************************************)
ShapeNames == {"circle", "star", "triangle", "square", "pentagon", "hexagon"}

\* shapes asked for: names, the empty string, undefined and the array ['star']
ShapeArgs ==
    {[t |-> "string", v |-> n] : n \in ShapeNames \cup {"SQUARE", "", "nonexistent"}}
        \cup {[t |-> "other", v |-> "undefined"], [t |-> "other", v |-> "star"]}

\* every 3 degrees of one turn, and angles below 0 and from 2*PI up
FiniteAngles ==
    {2 * i : i \in 0..119} \cup {-2, -30, -241, -270, -500, 240, 271, 482, 750}

AngleArgs ==
    {[t |-> "number", k |-> "fin", v |-> a] : a \in FiniteAngles}
        \cup {[t |-> "number", k |-> x, v |-> 0] : x \in {"nan", "inf", "ninf", "neghuge"}}
        \cup {[t |-> "other", k |-> "fin", v |-> 0]}

CornerRadii == {0, 250, 500, 1000}

CornerRadiusMethods == {"arc", "blend", "alternative"}

StarPoints == {-2, 0, 3, 5}

InnerRadii == {-200, 0, 200, 400, 1000, 1200}

RendererAtRest ==
    /\ morphProgress = 0
    /\ sumShort = FALSE
    /\ animationDirection = 1
    /\ animationMode = "twoShape"
    /\ selectedShapes = <<"triangle", "circle">>
    /\ currentShapeIndex = 0
    /\ nextShapeIndex = 1
    /\ animationSpeed = 4
    /\ isAnimating = FALSE
    /\ animationFrame = 0
    /\ pendingFrames = {}
    /\ checked = [b \in BoxNames |-> b \in {"triangle", "circle"}]
    /\ crossings = 0

\* a call of getShapeDistance(shape, angle, options) is made
GsdCall ==
    /\ gPc = "idle"
    /\ gShape' \in ShapeArgs
    /\ gAngle' \in AngleArgs
    /\ gOptions' \in [cornerRadius : CornerRadii, cornerRadiusMethod : CornerRadiusMethods,
                      points : StarPoints, innerRadius : InnerRadii]
    /\ (gShape'.v # "star" => gOptions'.points = 5 /\ gOptions'.innerRadius = 400)
    \* options outside the documented ranges are tried without corner rounding
    /\ (gOptions'.points < 0 \/ gOptions'.innerRadius < 0 \/ gOptions'.innerRadius > DScale)
           => (gOptions'.cornerRadius = 0 /\ gOptions'.cornerRadiusMethod = "arc")
    /\ gPc' = "entry"
    /\ UNCHANGED <<normalizedAngle, gResult, gTurns>>
    /\ UNCHANGED <<rendererVars, otherVars>>

ShapeInit == RendererAtRest /\ CalculatorIdle /\ OthersIdle

ShapeNext == GsdCall \/ GsdEnter \/ GsdLoop \/ GsdCalculate

\* the call runs on: a statement that can be executed is executed; a loop
\* whose turn leaves normalizedAngle as it was still takes its turns
ShapeSpec == ShapeInit /\ [][ShapeNext]_vars /\ WF_vars(ShapeNext)

(***************************************************************************)
(* One call of _calculateMorphedDistance on a renderer at rest             *)
(***************************************************************************)
Str(n) == [t |-> "string", v |-> n]

Undefined == [t |-> "other", v |-> "undefined"]

\* shape values the options can hold: the six names, names in another letter
\* case, names that are no shape, undefined, and the arrays ['star'] and
\* ['triangle'] a share URL can put there
MorphShapes ==
    {Str(n) : n \in ShapeNames \cup {"SQUARE", "Star", "nonexistent", "constructor",
                                      "toString"}}
        \cup {Undefined, [t |-> "other", v |-> "star"], [t |-> "other", v |-> "triangle"]}

\* angles the renderer asks for, and NaN
MorphAngles ==
    {[t |-> "number", k |-> "fin", v |-> a] : a \in {0, 7, 20, 30, 45, 60, 100, 170, 239}}
        \cup {[t |-> "number", k |-> "nan", v |-> 0]}

\* morphProgress every 0.025 of [0,1], next to the switch point of the ease,
\* and outside [0,1]
FineProgress == {25 * i : i \in 0..40} \cup {499, 501} \cup {-250, 1250}

CoarseProgress == {0, 250, 500, 1000}

MorphLists ==
    {[null |-> FALSE, list |-> <<>>],
     [null |-> FALSE, list |-> <<Str("star")>>],
     [null |-> FALSE, list |-> <<Str("triangle"), Str("circle")>>],
     [null |-> FALSE, list |-> <<Str("star"), Str("SQUARE"), Str("nonexistent")>>],
     [null |-> FALSE, list |-> <<[t |-> "other", v |-> "star"], Str("circle")>>],
     [null |-> TRUE, list |-> <<>>]}

MorphRadii == {<<0, "arc">>, <<500, "arc">>, <<500, "alternative">>, <<1000, "blend">>}

\* a call of _calculateMorphedDistance(angle) is made: either the two shapes
\* range over all values at a few progress values, or the progress ranges
\* finely for a few shape pairs
MorphCall ==
    /\ morph.pc = "idle"
    /\ mAngle' \in MorphAngles
    /\ \E start \in MorphShapes, end \in MorphShapes, p \in FineProgress \cup CoarseProgress,
          mode \in Modes, sel \in MorphLists, cur \in 0..2, nxt \in 0..3,
          r \in MorphRadii :
          /\ \/ /\ p \in CoarseProgress
                /\ sel.list = <<>> /\ ~sel.null
                /\ cur = 0 /\ nxt = 1
             \/ /\ <<start.v, end.v>> \in {<<"triangle", "circle">>, <<"star", "square">>}
                /\ start.t = "string" /\ end.t = "string"
                /\ r[1] = 0
                /\ nxt = (cur + 1) % 3
          /\ mOptions' = [startShape |-> start, endShape |-> end, morphProgress |-> p,
                          animationMode |-> mode, selectedShapes |-> sel,
                          currentShapeIndex |-> cur, nextShapeIndex |-> nxt,
                          cornerRadius |-> r[1], cornerRadiusMethod |-> r[2]]
    /\ morph' = [pc |-> "entry"]
    /\ UNCHANGED <<rendererVars, calculatorVars, cornerVars, testVars, configVars,
                 pageVars>>

MorphInit == RendererAtRest /\ CalculatorIdle /\ OthersIdle

MorphNext == MorphCall \/ CalculateMorphedDistance

MorphSpec == MorphInit /\ [][MorphNext]_vars

(***************************************************************************)
(* One call of applyCornerRadius on a renderer at rest                     *)
(***************************************************************************)
CornerDistances == {400, 1000, 1414}

\* every 1.5 degrees of one turn, and angles below 0 and from 2*PI up
CornerAngles == 0..239 \cup {-1, -20, -61, 240, 250}

CornerRadiusArgs == {-500, 0, 250, 500, 1000, 1500}

CornerCounts == {3, 4, 5, 6}

CornerMethodArgs == CornerRadiusMethods \cup {"unknown"}

CornerCall ==
    /\ cPc = "idle"
    /\ cArgs' \in [distance : CornerDistances, angle : CornerAngles,
                   cornerRadius : CornerRadiusArgs, corners : CornerCounts,
                   method : CornerMethodArgs]
    /\ cPc' = "entry"
    /\ UNCHANGED cResult
    /\ UNCHANGED <<rendererVars, calculatorVars, morphVars, testVars, configVars,
                 pageVars>>

CornerInit == RendererAtRest /\ CalculatorIdle /\ OthersIdle

CornerNext == CornerCall \/ ApplyCornerRadius

CornerSpec == CornerInit /\ [][CornerNext]_vars

(***************************************************************************)
(* The renderer under its tests: the animation is toggled, started,        *)
(* stopped and ticks, and the toggleAnimation test is run at any time      *)
(***************************************************************************)
TestDeltas == {50, 150}

\* the renderer as constructed
TestInit == Init

TestNext ==
    \/ ToggleAnimationTest
    \/ ToggleAnimation
    \/ StartAnimation
    \/ StopAnimation
    \/ \E d \in TestDeltas, sh \in BOOLEAN, e \in BOOLEAN : AnimationLoop(d, sh, e)

TestSpec == TestInit /\ [][TestNext]_vars

(***************************************************************************)
(* saveSettings(s) and then loadSettings(), on a renderer at rest          *)
(***************************************************************************)
\* values on offer for each key: absent, inside its range, outside it
SettingValues(k) ==
    IF k = "numLines"
    THEN {Absent, NumberV(60000), NumberV(200000), NumberV(5000), StringV("abc")}
    ELSE IF k = "lineThickness" THEN {Absent, NumberV(1500), NumberV(9000)}
    ELSE IF k = "innerRadiusRatio" THEN {Absent, NumberV(0), NumberV(500), NumberV(950)}
    ELSE IF k = "rotation" THEN {Absent, NumberV(0), NumberV(90000), NumberV(400000)}
    ELSE IF k = "canvasRotation" THEN {Absent, NumberV(0), NumberV(180000)}
    ELSE IF k = "scale" THEN {Absent, NumberV(1000), NumberV(3000), NumberV(-3000)}
    ELSE IF k = "morphProgress"
    THEN {Absent, NumberV(0), NumberV(500), NumberV(1000), NumberV(1500)}
    ELSE IF k = "animationSpeed"
    THEN {Absent, NumberV(2000), NumberV(0), NumberV(250), NumberV(100000)}
    ELSE IF k = "startShape" THEN {Absent, StringV("star"), StringV("nonexistent")}
    ELSE IF k = "endShape" THEN {Absent, StringV("circle")}
    ELSE IF k = "centerColor" THEN {Absent, StringV("#ff0000"), StringV("red")}
    ELSE IF k = "outerColor" THEN {Absent, StringV("#00ff00")}
    ELSE IF k = "backgroundColor" THEN {Absent, StringV("#000000")}
    ELSE IF k = "animationMode" THEN {Absent, StringV("multiShape"), StringV("bogus")}
    ELSE IF k = "selectedShapes"
    THEN {Absent, ArrayV(<<"triangle", "circle">>), ArrayV(<<"star">>),
          ArrayV(<<"star", "nonexistent", "circle">>), ArrayV(<<"hexagon", "nonexistent">>),
          StringV("star")}
    ELSE {Absent, StringV("test-1")}

\* the settings objects that hold at most n keys
RECURSIVE SettingsWithKeys(_)
SettingsWithKeys(n) ==
    IF n = 0 THEN {EmptySettings}
    ELSE LET fewer == SettingsWithKeys(n - 1) IN
         fewer \cup UNION {UNION {{[s EXCEPT ![k] = v] : v \in SettingValues(k)} :
                                     k \in SettingKeys} : s \in fewer}

MaxKeys == 2

SettingsArgs == SettingsWithKeys(MaxKeys)

\* what the storage may hold when the run of calls begins
OlderStorage ==
    {[present |-> FALSE, obj |-> EmptySettings],
     [present |-> TRUE, obj |-> [EmptySettings EXCEPT !["numLines"] = NumberV(60000)]]}

\* saveSettings(s) is called
ConfigCall ==
    /\ config.pc = "idle"
    /\ settingsArg' \in SettingsArgs
    /\ config' = [config EXCEPT !.pc = "save"]
    /\ UNCHANGED <<rendererVars, calculatorVars, morphVars, cornerVars, testVars,
                 pageVars>>

ConfigInit ==
    /\ RendererAtRest /\ CalculatorIdle /\ CallsIdle /\ PageIdle
    /\ settingsArg = Absent
    /\ \E copy \in ConfigCopies, item \in OlderStorage :
          config = [pc |-> "idle", copy |-> copy, storage |-> item, saved |-> FALSE,
                    loaded |-> [null |-> TRUE, obj |-> EmptySettings], url |-> <<>>]

ConfigNext == ConfigCall \/ (\E throws \in BOOLEAN : SaveSettings(throws)) \/ LoadSettings

ConfigSpec == ConfigInit /\ [][ConfigNext]_vars

(***************************************************************************)
(* saveSettings called again and again, on a renderer at rest              *)
(***************************************************************************)
\* the arguments of these calls: one key each, and one object of many keys
StoreArgs ==
    SettingsWithKeys(1) \cup
    {[k \in SettingKeys |->
        IF k = "numLines" THEN NumberV(5000)
        ELSE IF k = "scale" THEN NumberV(3000)
        ELSE IF k = "morphProgress" THEN NumberV(1500)
        ELSE IF k = "selectedShapes" THEN ArrayV(<<"star">>)
        ELSE Absent]}

\* saveSettings(s) is called
StoreCall ==
    /\ config.pc = "idle"
    /\ settingsArg' \in StoreArgs
    /\ config' = [config EXCEPT !.pc = "save"]
    /\ UNCHANGED <<rendererVars, calculatorVars, morphVars, cornerVars, testVars,
                 pageVars>>

\* the caller goes on after saveSettings has returned
StoreReturn ==
    /\ config.pc = "saved"
    /\ config' = [config EXCEPT !.pc = "idle"]
    /\ UNCHANGED settingsArg
    /\ UNCHANGED <<rendererVars, calculatorVars, morphVars, cornerVars, testVars,
                 pageVars>>

StoreInit == ConfigInit

StoreNext == StoreCall \/ (\E throws \in BOOLEAN : SaveSettings(throws)) \/ StoreReturn

StoreSpec == StoreInit /\ [][StoreNext]_vars

(***************************************************************************)
(* Calls of the Logger, on a page at rest                                  *)
(***************************************************************************)
\* names given to setLogLevel
LevelNameArgs ==
    KnownLevels \cup {"debug", "VERBOSE", "constructor", "toString", "__proto__"}

LogMessages == {"m"}

LogInit == RendererAtRest /\ CalculatorIdle /\ OthersIdle

LogNext ==
    \/ \E level \in KnownLevels, message \in LogMessages : LogCall(level, message)
    \/ \E level \in LevelNameArgs : SetLogLevel(level)
    \/ ClearHistory

LogSpec == LogInit /\ [][LogNext]_vars

(***************************************************************************)
(* Window resize events and the resize timer, on a page at rest            *)
(***************************************************************************)
ResizeInit == RendererAtRest /\ CalculatorIdle /\ OthersIdle

ResizeNext == WindowResize \/ ResizeTimerFires \/ TimePasses

ResizeSpec == ResizeInit /\ [][ResizeNext]_vars

(***************************************************************************)
(* Clicks on the typography controls, on a page at rest                    *)
(***************************************************************************)
TypographyInit == RendererAtRest /\ CalculatorIdle /\ OthersAtStart

TypographyNext ==
    \/ \E font \in FontFamilies : FontButtonClick(font)
    \/ TextCaseToggleClick
    \/ \E type \in FontFamilies : FontIconClick(type)
    \/ CaseIconClick

TypographySpec == TypographyInit /\ [][TypographyNext]_vars

(***************************************************************************)
(* createShareableURL(s), on a renderer at rest                            *)
(***************************************************************************)
\* createShareableURL(s) is called
ShareCall ==
    /\ config.pc = "idle"
    /\ settingsArg' \in SettingsArgs
    /\ config' = [config EXCEPT !.pc = "share"]
    /\ UNCHANGED <<rendererVars, calculatorVars, morphVars, cornerVars, testVars,
                 pageVars>>

ShareInit == ConfigInit

ShareNext == ShareCall \/ CreateShareableURL

ShareSpec == ShareInit /\ [][ShareNext]_vars

(***************************************************************************)
(* Properties of the animation driver                                      *)
(***************************************************************************)
TickStep(d, sh) == \E e \in BOOLEAN : AnimationLoop(d, sh, e)

\* C1: in twoShape mode every tick leaves morphProgress in [0,1]; a tick
\* that would take it to 1 or above sets it to exactly 1 and the direction
\* to -1, a tick that would take it to 0 or below sets it to exactly 0 and
\* the direction to +1.  Where the tick would take it is the sum the code
\* holds: raw is the exact sum, and sh holds when raw is on a bound and the
\* sum the code holds is rounded to just short of it.
C1_TwoShapeClamp ==
    [][\A d \in Deltas, sh \in BOOLEAN :
        (animationMode = "twoShape" /\ TickStep(d, sh)) =>
            LET raw == morphProgress + animationDirection * animationSpeed * d IN
            /\ morphProgress' >= 0 /\ morphProgress' <= PScale
            /\ (raw >= PScale /\ ~sh) => (morphProgress' = PScale /\ animationDirection' = -1)
            /\ (raw <= 0 /\ ~sh) => (morphProgress' = 0 /\ animationDirection' = 1)]_vars

\* C1 witness: a running two-shape animation has been clamped at 1 and turned round
C1_Witness ==
    /\ animationMode = "twoShape"
    /\ isAnimating
    /\ morphProgress = PScale
    /\ animationDirection = -1

\* C2: in multiShape mode every tick leaves morphProgress in [0,1], whatever
\* the length of the shape list.
C2_MultiShapeRange ==
    [][\A d \in Deltas, sh \in BOOLEAN :
        (animationMode = "multiShape" /\ TickStep(d, sh)) =>
            (morphProgress' >= 0 /\ morphProgress' <= PScale)]_vars

\* C3: in multiShape mode with n >= 2 shapes a tick that brings morphProgress
\* to 1 or above resets it to 0, makes the old nextShapeIndex the current
\* index and advances nextShapeIndex by one modulo n; any other tick leaves
\* both indices alone.  Where the tick brings it is the sum the code holds:
\* raw is the exact sum, and sh holds when raw is 1 and the sum the code
\* holds is rounded to just short of it.
C3_MultiShapeAdvance ==
    [][\A d \in Deltas, sh \in BOOLEAN :
        (animationMode = "multiShape" /\ Len(selectedShapes) >= 2 /\ TickStep(d, sh)) =>
            LET raw == morphProgress + animationSpeed * d
                n == Len(selectedShapes)
                reached == raw >= PScale /\ ~sh
            IN
            /\ reached =>
                  /\ morphProgress' = 0
                  /\ currentShapeIndex' = nextShapeIndex
                  /\ nextShapeIndex' = (nextShapeIndex + 1) % n
            /\ ~reached =>
                  /\ currentShapeIndex' = currentShapeIndex
                  /\ nextShapeIndex' = nextShapeIndex]_vars

\* C3 witness: a three-shape cycle right after its second advance, the next
\* index wrapped round to the first shape
C3_Witness ==
    /\ animationMode = "multiShape"
    /\ Len(selectedShapes) = 3
    /\ crossings = 2
    /\ morphProgress = 0
    /\ currentShapeIndex = 2
    /\ nextShapeIndex = 0

\* C4: with n >= 2 shapes and the indices started at 0 and 1, after k
\* crossings of 1 the current index is k mod n.
C4_CycleIndex ==
    (Len(selectedShapes) >= 2 /\ crossings >= 0) =>
        currentShapeIndex = crossings % Len(selectedShapes)

\* C4 witness: a three-shape list after three crossings, back at the first shape
C4_Witness ==
    /\ Len(selectedShapes) = 3
    /\ crossings = 3
    /\ currentShapeIndex = 0

\* C5: a running two-shape animation keeps bouncing: it reaches 1 with the
\* direction turned to -1 and reaches 0 with the direction turned to +1,
\* again and again.
C5_BounceForever ==
    /\ []<>(morphProgress = PScale /\ animationDirection = -1)
    /\ []<>(morphProgress = 0 /\ animationDirection = 1)

\* C5 witness: the running animation on its way back down from 1
C5_Witness ==
    /\ isAnimating
    /\ pendingFrames # {}
    /\ animationDirection = -1
    /\ morphProgress > 0
    /\ morphProgress < PScale

\* the driver state after one tick of length d from st, no sum falling short
TickFrom(st, d) ==
    DriverTick(st.p, st.dir, st.cur, st.nxt, animationMode, Len(selectedShapes),
               animationSpeed, d, FALSE)

DriverState ==
    [p |-> morphProgress, dir |-> animationDirection,
     cur |-> currentShapeIndex, nxt |-> nextShapeIndex]

Driver(t) == [p |-> t.p, dir |-> t.dir, cur |-> t.cur, nxt |-> t.nxt]

\* lengths of the ticks an elapsed time is split into: 5, 25 and 50 nominal
\* frames
SplitDeltas == {25, 125, 250}

\* the most ticks an elapsed time is split into
MaxTicks == 3

\* the ways an elapsed time is delivered as several ticks
Splits == UNION {[1..n -> SplitDeltas] : n \in 2..MaxTicks}

RECURSIVE Total(_)
\* the elapsed time the ticks ds add up to
Total(ds) == IF ds = <<>> THEN 0 ELSE Head(ds) + Total(Tail(ds))

RECURSIVE TicksFrom(_, _)
\* the driver state after the ticks ds, one after the other, from st
TicksFrom(st, ds) ==
    IF ds = <<>> THEN st
    ELSE TicksFrom(Driver(TickFrom(st, Head(ds))), Tail(ds))

\* C6 as claimed: the driver state after an elapsed time is the same whether
\* the time comes as one tick or as several ticks.
C6_FrameRateIndependent ==
    \A ds \in Splits :
        TicksFrom(DriverState, ds) = Driver(TickFrom(DriverState, Total(ds)))

\* the exact sum of a tick of length d from st
RawSum(st, d) == ExactSum(st.p, st.dir, animationMode, animationSpeed, d)

\* a tick of length d from st neither clamps nor resets the progress
NoBoundHit(st, d) == RawSum(st, d) > 0 /\ RawSum(st, d) < PScale

RECURSIVE StaysInside(_, _)
\* no tick of ds before the last takes the progress to a bound or past it
StaysInside(st, ds) ==
    \/ Len(ds) <= 1
    \/ /\ NoBoundHit(st, Head(ds))
       /\ StaysInside(Driver(TickFrom(st, Head(ds))), Tail(ds))

\* C6 amended: the driver state after an elapsed time is the same whether
\* the time comes as one tick or as several, as long as no tick before the
\* last takes the progress to a bound or past it and the whole time does not
\* bring the progress exactly to a bound, where the rounding of the sums
\* decides on which side of the bound the sum the code holds lies.
C6_FrameRateIndependentInside ==
    \A ds \in Splits :
        (StaysInside(DriverState, ds)
            /\ ~OnBound(RawSum(DriverState, Total(ds)), animationMode)) =>
                TicksFrom(DriverState, ds)
                    = Driver(TickFrom(DriverState, Total(ds)))

\* C6 witness: a running animation at a positive speed from which three
\* ticks all stay between the bounds, and from which another split of the
\* time has its last tick alone take the progress past a bound
C6_Witness ==
    /\ isAnimating
    /\ animationSpeed > 0
    /\ \E ds \in Splits :
          /\ Len(ds) = MaxTicks
          /\ StaysInside(DriverState, ds)
          /\ NoBoundHit(DriverState, Total(ds))
    /\ \E ds \in Splits :
          /\ StaysInside(DriverState, ds)
          /\ ~NoBoundHit(DriverState, Total(ds))
          /\ ~OnBound(RawSum(DriverState, Total(ds)), animationMode)
          /\ TicksFrom(DriverState, ds).dir # animationDirection

DriverVars == <<morphProgress, animationDirection, currentShapeIndex, nextShapeIndex>>

AnyTick == \E d \in Deltas, sh \in BOOLEAN : TickStep(d, sh)

\* C7 as claimed: while the animation is running only the tick writes the
\* driver state.
C7_SingleWriter ==
    [][(isAnimating /\ isAnimating' /\ DriverVars' # DriverVars) => AnyTick]_vars

\* C7 amended: the direction is written by the tick alone; while the
\* animation is running the progress is also written by the progress slider,
\* and the progress and both indices are also reset to 0, 0 and 1 by the
\* shape-selection handler.
C7_Writers ==
    [][/\ animationDirection' # animationDirection => AnyTick
       /\ (isAnimating /\ isAnimating' /\ DriverVars' # DriverVars /\ ~AnyTick) =>
            \/ /\ morphProgress' \in SliderValues
               /\ currentShapeIndex' = currentShapeIndex
               /\ nextShapeIndex' = nextShapeIndex
            \/ /\ morphProgress' = 0
               /\ currentShapeIndex' = 0
               /\ nextShapeIndex' = 1]_vars

\* C7 witness: a running animation that has turned round and whose progress
\* was then put on a slider position no tick had reached
C7_Witness ==
    /\ isAnimating
    /\ animationDirection = -1
    /\ morphProgress = 100
    /\ crossings = 0

(***************************************************************************)
(* Properties of getShapeDistance                                          *)
(***************************************************************************)
Returned == gPc = "done"

RecognizedShape == gShape.t = "string" /\ gShape.v \in ShapeNames

DocumentedOptions ==
    /\ gOptions.cornerRadius >= 0 /\ gOptions.cornerRadius <= DScale
    /\ gOptions.cornerRadiusMethod \in {"arc", "blend", "alternative"}
    /\ gOptions.points > 0
    /\ gOptions.innerRadius > 0 /\ gOptions.innerRadius < DScale

\* C8: for each of the six shapes, every real angle and every option record
\* within the documented ranges, the distance returned is finite and >= 0.
C8_FiniteNonNegative ==
    (Returned /\ RecognizedShape /\ DocumentedOptions
        /\ gAngle.t = "number" /\ gAngle.k = "fin") =>
            (~gResult.nan /\ gResult.v >= 0)

\* C9: the call returns for every number given as the angle, the infinities
\* and arbitrarily large negative numbers included, and for a non-finite
\* angle what it returns is the fallback 1.
C9_Terminates ==
    <>(Returned /\ (gAngle.k \in {"inf", "ninf"} => gResult = Num(DScale)))

\* C10: no exception leaves the call, and when the shape is not a string, is
\* empty or is not one of the six names, or the angle is not a number or is
\* NaN, the value returned is exactly 1.
C10_FallbackOne ==
    (Returned /\ (\/ gShape.t # "string"
                  \/ gShape.v = ""
                  \/ toLowerCase(gShape.v) \notin ShapeNames
                  \/ gAngle.t # "number"
                  \/ gAngle.k = "nan")) =>
        gResult = Num(DScale)

\* C10 witness: an unknown shape name asked for at 45 degrees has returned
C10_Witness ==
    /\ Returned
    /\ gShape = [t |-> "string", v |-> "nonexistent"]
    /\ gAngle = [t |-> "number", k |-> "fin", v |-> 30]
    /\ gResult = Num(DScale)

(***************************************************************************)
(* Properties of _calculateMorphedDistance                                 *)
(***************************************************************************)
MorphReturned == morph.pc = "done"

Recognized(shape) == shape.t = "string" /\ toLowerCase(shape.v) \in ShapeNames

\* C11: the morphed distance is exactly 1, and no exception leaves the call,
\* whenever one of the two shape names is not a recognized shape or the
\* angle is NaN, at every progress and in both modes.
C11_FallbackOne ==
    (MorphReturned /\ ~morph.thrown
        /\ (\/ ~Recognized(morph.fromShape)
            \/ ~Recognized(morph.toShape)
            \/ mAngle.k = "nan")) =>
        morph.result = Num(DScale)

\* the options _calculateMorphedDistance hands to getShapeDistance
MorphShapeOptions ==
    [cornerRadius |-> mOptions.cornerRadius,
     cornerRadiusMethod |-> mOptions.cornerRadiusMethod,
     points |-> 5, innerRadius |-> 400]

\* N(shape, angle) of the call under way: the normalized shape distance
N(shape) == normalizeShapeDistance(shape, getShapeDistance(shape, mAngle, MorphShapeOptions))

TwoShapeCase ==
    /\ MorphReturned /\ ~morph.thrown
    /\ mOptions.animationMode = "twoShape"
    /\ mOptions.morphProgress >= 0 /\ mOptions.morphProgress <= PScale
    /\ ~N(mOptions.startShape).nan /\ ~N(mOptions.endShape).nan

\* C12: in twoShape mode, for progress p in [0,1], the morphed distance is
\* (1-p)*N(A) + p*N(B) for the start shape A and the end shape B: N(A) at
\* p = 0, N(B) at p = 1, the mean of the two at p = 0.5.
C12_LinearBlend ==
    TwoShapeCase =>
        LET p == mOptions.morphProgress
            NA == N(mOptions.startShape).v
            NB == N(mOptions.endShape).v
        IN /\ ~morph.result.nan
           /\ morph.result.v = Quot((PScale - p) * NA + p * NB, PScale)
           /\ (p = 0 => morph.result.v = NA)
           /\ (p = PScale => morph.result.v = NB)
           /\ (p = 500 => morph.result.v = Quot(NA + NB, 2))

\* C12 witness: triangle to circle at angle 0, half way, has returned the
\* mean of two different distances
C12_Witness ==
    /\ TwoShapeCase
    /\ mOptions.startShape = Str("triangle") /\ mOptions.endShape = Str("circle")
    /\ mOptions.morphProgress = 500 /\ mOptions.cornerRadius = 0
    /\ mAngle = [t |-> "number", k |-> "fin", v |-> 0]
    /\ N(mOptions.startShape) # N(mOptions.endShape)
    /\ morph.result.v = Quot(N(mOptions.startShape).v + N(mOptions.endShape).v, 2)

MultiShapeCase ==
    /\ MorphReturned /\ ~morph.thrown
    /\ mOptions.animationMode = "multiShape"
    /\ mOptions.morphProgress >= 0 /\ mOptions.morphProgress <= PScale

\* C13: the multiShape ease has no jump at p = 0.5, where both halves give
\* 0.5; it takes 0 to 0 and 1 to 1, never decreases on [0,1], and so stays
\* in [0,1].
C13_EaseContinuous ==
    MultiShapeCase =>
        LET p == mOptions.morphProgress
            e == morph.easedProgress
        IN /\ e >= 0 /\ e <= PScale
           /\ (p = 0 => e = 0)
           /\ (p = PScale => e = PScale)
           /\ (p = 500 => e = 500 /\ easeIn(p) = e /\ easeOut(p) = e)
           /\ \A q \in FineProgress :
                 (q >= 0 /\ q <= p) => easedProgress("multiShape", q) <= e
           /\ \A q \in {499, 500, 501} :
                 (p \in {499, 500, 501}) =>
                     Abs(easedProgress("multiShape", q) - e) <= 3 * Abs(q - p) + 1

\* C13 witness: a multiShape call at p = 0.5 has eased it to 0.5
C13_Witness ==
    /\ MultiShapeCase
    /\ mOptions.morphProgress = 500
    /\ morph.easedProgress = 500

\* a shape value with its name in lower case
Lower(shape) == IF shape.t = "string" THEN Str(toLowerCase(shape.v)) ELSE shape

\* the options with every shape name in lower case
LowerOptions(o) ==
    [o EXCEPT !.startShape = Lower(@), !.endShape = Lower(@),
              !.selectedShapes.list = [i \in 1..Len(@) |-> Lower(@[i])]]

\* C14: shape names are case-insensitive: for a recognized name in any letter
\* case, getShapeDistance, normalizeShapeDistance and the morphed distance
\* return what they return for the lower-case name.
C14_CaseInsensitive ==
    (MorphReturned /\ ~morph.thrown
        /\ Recognized(morph.fromShape) /\ Recognized(morph.toShape)) =>
        /\ morph.startDist = getShapeDistance(Lower(morph.fromShape), mAngle, MorphShapeOptions)
        /\ morph.endDist = getShapeDistance(Lower(morph.toShape), mAngle, MorphShapeOptions)
        /\ morph.normalizedStartDist
               = normalizeShapeDistance(Lower(morph.fromShape), morph.startDist)
        /\ morph.normalizedEndDist
               = normalizeShapeDistance(Lower(morph.toShape), morph.endDist)
        /\ morph.result = MorphedDistance(LowerOptions(mOptions), mAngle).result

(***************************************************************************)
(* Properties of the star and of corner rounding                           *)
(***************************************************************************)
StarOptionsValid ==
    /\ gOptions.points > 0
    /\ gOptions.innerRadius > 0 /\ gOptions.innerRadius < DScale

\* C15: the star without corner rounding: with points > 0 and innerRadius in
\* (0,1) the distance returned lies in [innerRadius, 1] at every angle; with
\* points <= 0, innerRadius <= 0 or innerRadius >= 1 it is exactly 1, and
\* the call returns it rather than throws.
C15_StarRange ==
    (Returned /\ gShape = [t |-> "string", v |-> "star"] /\ gOptions.cornerRadius = 0) =>
        /\ ~gResult.nan
        /\ IF StarOptionsValid
           THEN gResult.v >= gOptions.innerRadius /\ gResult.v <= DScale
           ELSE gResult.v = DScale

\* C15 witness: a five-pointed star has returned a distance strictly between
\* its inner radius and 1
C15_Witness ==
    /\ Returned /\ gShape = [t |-> "string", v |-> "star"]
    /\ gOptions.cornerRadius = 0 /\ gOptions.points = 5 /\ gOptions.innerRadius = 400
    /\ gAngle.t = "number" /\ gAngle.k = "fin"
    /\ gResult.v > 400 /\ gResult.v < DScale

CornerReturned == cPc = "done"

\* C16: corner rounding at zero strength does nothing: with cornerRadius <= 0
\* applyCornerRadius returns the input distance, for every distance, angle,
\* corner count and method name, known or not.
C16_NoOpAtZero ==
    (CornerReturned /\ cArgs.cornerRadius <= 0) => cResult = cArgs.distance

\* C16 witness: the blend method at radius 0 has returned a distance other
\* than 1 as it was
C16_Witness ==
    /\ CornerReturned
    /\ cArgs.cornerRadius = 0 /\ cArgs.method = "blend" /\ cArgs.distance = 1414
    /\ cResult = 1414

\* the shapes that round their corners
RoundedShapes == {"star", "triangle", "square", "pentagon", "hexagon"}

\* C17: the blend method at cornerRadius 1 returns exactly 1 for every
\* distance, angle and corner count, so every polygon and the star asked for
\* with blend and full radius is the circle.
C17_BlendToCircle ==
    (CornerReturned /\ cArgs.method = "blend" /\ cArgs.cornerRadius = DScale) =>
        /\ cResult = DScale
        /\ \A n \in RoundedShapes :
               getShapeDistance(Str(n), [t |-> "number", k |-> "fin", v |-> cArgs.angle],
                                [cornerRadius |-> DScale, cornerRadiusMethod |-> "blend",
                                 points |-> 5, innerRadius |-> 400]) = Num(DScale)

\* C17 witness: a distance other than 1 went in at an angle between corners
C17_Witness ==
    /\ CornerReturned
    /\ cArgs.method = "blend" /\ cArgs.cornerRadius = DScale
    /\ cArgs.distance = 400 /\ cArgs.angle = 17 /\ cArgs.corners = 5
    /\ cResult = DScale

\* the radius the arc method is given: Math.min(1, cornerRadius * 1.5) for
\* up to 4 corners
EnhancedRadius ==
    IF cArgs.corners <= 4 THEN Min2(DScale, Quot(cArgs.cornerRadius * 3, 2))
    ELSE cArgs.cornerRadius

ArcMethod == cArgs.method \notin {"blend", "alternative"}

ClosestCorner == minAngularDistance(cArgs.angle, cArgs.corners)

\* arc: minAngularDistance against maxAngularEffect = (segmentAngle / 2) * radius
ArcAtEdge == 2 * ClosestCorner * DScale = (TwoPi \div cArgs.corners) * EnhancedRadius

ArcOutside == 2 * ClosestCorner * DScale > (TwoPi \div cArgs.corners) * EnhancedRadius

\* alternative: closestCornerDist against cornerEffectRadius = segmentAngle * 0.3 * radius
AlternativeAtEdge ==
    10 * ClosestCorner * DScale = (TwoPi \div cArgs.corners) * 3 * cArgs.cornerRadius

AlternativeOutside ==
    10 * ClosestCorner * DScale > (TwoPi \div cArgs.corners) * 3 * cArgs.cornerRadius

\* blend: the factor (1 - positionInSegment) / cornerRadius falls to 0 where
\* positionInSegment is 1, in the middle of a segment
BlendAtEdge ==
    2 * JsMod(cArgs.angle, TwoPi \div cArgs.corners) = TwoPi \div cArgs.corners

\* C18: none of the three methods makes the distance jump where the angle
\* crosses the edge of a corner's effect window: at the edge the reduction
\* (arc, alternative) or the blend factor (blend) is exactly 0, and outside
\* the window the input distance is returned as it is.
C18_NoJumpAtEdge ==
    (CornerReturned /\ cArgs.cornerRadius > 0) =>
        /\ (ArcMethod /\ (ArcAtEdge \/ ArcOutside)) => cResult = cArgs.distance
        /\ (cArgs.method = "alternative" /\ (AlternativeAtEdge \/ AlternativeOutside))
               => cResult = cArgs.distance
        /\ (cArgs.method = "blend" /\ cArgs.cornerRadius < DScale /\ BlendAtEdge)
               => cResult = cArgs.distance

\* C18 witness: the arc method exactly at the edge of a hexagon corner's
\* window, 15 degrees off the corner at radius 0.5
C18_Witness ==
    /\ CornerReturned
    /\ cArgs.method = "arc" /\ cArgs.cornerRadius = 500 /\ cArgs.corners = 6
    /\ cArgs.angle = 10 /\ cArgs.distance = 1414
    /\ ArcAtEdge
    /\ cResult = 1414

(***************************************************************************)
(* Properties of toggleAnimation                                           *)
(***************************************************************************)
\* C19: toggleAnimation flips isAnimating and returns the new value; two
\* calls in a row restore isAnimating, and when the renderer was not
\* animating before them no animation frame is left scheduled.
C19_ToggleTwice ==
    [][/\ ToggleAnimation =>
            /\ isAnimating' = ~isAnimating
            /\ FrameState' = ToggleAnimationOn(FrameState).st
            /\ ToggleAnimationOn(FrameState).ret = isAnimating'
       /\ ToggleAnimationTest =>
            /\ toggleTest'.toggled
            /\ toggleTest'.first = ~isAnimating
            /\ toggleTest'.second = isAnimating
            /\ isAnimating' = isAnimating
            /\ (~isAnimating => (pendingFrames' = {} /\ animationFrame' = 0))]_vars

\* C19 witness: the test has run on a renderer that was not animating and has
\* left it so, with no frame scheduled
C19_Witness ==
    /\ toggleTest.ran /\ ~toggleTest.initialState /\ toggleTest.toggled
    /\ toggleTest.first /\ ~toggleTest.second
    /\ ~isAnimating /\ pendingFrames = {} /\ animationFrame = 0
    /\ morphProgress > 0

(***************************************************************************)
(* Properties of saveSettings and loadSettings                             *)
(***************************************************************************)
\* the value is inside the valid range of the key
InRange(k, v) ==
    IF k = "numLines" THEN v.t = "number" /\ v.n >= 10000 /\ v.n <= 200000
    ELSE IF k = "lineThickness" THEN v.t = "number" /\ v.n >= 500 /\ v.n <= 5000
    ELSE IF k = "innerRadiusRatio" THEN v.t = "number" /\ v.n >= 0 /\ v.n <= 900
    ELSE IF k \in {"rotation", "canvasRotation"}
    THEN v.t = "number" /\ v.n >= 0 /\ v.n <= 360000
    ELSE IF k = "scale" THEN v.t = "number" /\ v.n >= 100 /\ v.n <= 2000
    ELSE IF k = "morphProgress" THEN v.t = "number" /\ v.n >= 0 /\ v.n <= 1000
    ELSE IF k = "animationSpeed" THEN v.t = "number" /\ v.n >= 500 /\ v.n <= 5000
    ELSE IF k \in {"startShape", "endShape"} THEN v.t = "string" /\ v.s \in validShapes
    ELSE IF k \in {"centerColor", "outerColor", "backgroundColor"}
    THEN v.t = "string" /\ v.s \in {"#ff0000", "#00ff00", "#000000"}
    ELSE IF k = "animationMode" THEN v.t = "string" /\ v.s \in {"twoShape", "multiShape"}
    ELSE IF k = "selectedShapes"
    THEN v.t = "array" /\ Len(v.l) >= 2 /\ \A i \in 1..Len(v.l) : v.l[i] \in validShapes
    ELSE v.t # "undefined"

\* C20: after saveSettings(s) has returned true, loadSettings() returns an
\* object that holds every serializable key of s whose value is inside the
\* key's valid range with exactly that value, and holds no key that is not
\* serializable.
C20_SaveLoadRoundTrip ==
    (config.pc = "loaded" /\ config.saved) =>
        /\ ~config.loaded.null
        /\ \A k \in SettingKeys :
               IF k \in SERIALIZABLE_SETTINGS(config.copy)
               THEN InRange(k, settingsArg[k]) => config.loaded.obj[k] = settingsArg[k]
               ELSE config.loaded.obj[k] = Absent

(***************************************************************************)
(* Properties of createShareableURL                                        *)
(***************************************************************************)
\* the URL holds the parameter key=value
UrlHolds(k, v) == \E i \in 1..Len(config.url) : config.url[i] = k \o "=" \o ParamText(v)

\* C21: for every key that createShareableURL shares and that the given
\* settings hold with a value inside its valid range, the returned URL
\* contains that key with that same value.
C21_SharedKeysKept ==
    config.pc = "shared" =>
        \A i \in 1..Len(SharedKeys(config.copy)) :
            LET k == SharedKeys(config.copy)[i] IN
            InRange(k, settingsArg[k]) => UrlHolds(k, settingsArg[k])
(***************************************************************************)
(* Properties of the shape list and its indices                            *)
(***************************************************************************)
\* C22: the indices having started at the defaults 0 and 1 or been set to
\* them since, whenever the shape list has n >= 2 entries, currentShapeIndex
\* and nextShapeIndex are indices into the list and nextShapeIndex is
\* (currentShapeIndex + 1) mod n, so the two are different positions.
C22_IndicesValid ==
    LET n == Len(selectedShapes) IN
    (n >= 2 /\ crossings >= 0) =>
        /\ currentShapeIndex \in 0..(n - 1)
        /\ nextShapeIndex \in 0..(n - 1)
        /\ nextShapeIndex = (currentShapeIndex + 1) % n
        /\ nextShapeIndex # currentShapeIndex

\* C22 witness: all four boxes are checked and the multiShape animation has
\* moved on to the last pair, from the fourth shape back to the first
C22_Witness ==
    /\ animationMode = "multiShape"
    /\ Len(selectedShapes) = 4
    /\ currentShapeIndex = 3
    /\ nextShapeIndex = 0
(***************************************************************************)
(* Properties of the animation-frame bookkeeping                           *)
(***************************************************************************)
\* C23: between two handlers at most one animation-frame callback is
\* pending: exactly one, the one animationFrame names, while isAnimating is
\* true, and none while it is false.
C23_OnePendingFrame ==
    /\ Cardinality(pendingFrames) <= 1
    /\ isAnimating => (animationFrame # 0 /\ pendingFrames = {animationFrame})
    /\ ~isAnimating => pendingFrames = {}

\* C23 witness: a running animation whose callback has fired and asked for
\* the next frame
C23_Witness ==
    /\ isAnimating
    /\ animationFrame = 2
    /\ pendingFrames = {2}
    /\ morphProgress > 0
(***************************************************************************)
(* Properties of updateSelectedShapes                                      *)
(***************************************************************************)
\* updateSelectedShapes() runs: a shape checkbox changes, or the mode is
\* switched to multiShape
UpdateSelectedShapesRuns ==
    \/ \E b \in BoxNames : ShapeCheckboxChange(b)
    \/ AnimationModeChange("multiShape")

ClampedKeys == {"numLines", "lineThickness", "innerRadiusRatio", "rotation", "scale",
                "morphProgress", "animationSpeed"}

\* C25: every numeric setting held in storage lies inside its validation
\* range, and a stored selectedShapes list has at least 2 entries, all of
\* them recognized shape names.
C25_StoredInRange ==
    config.storage.present =>
        /\ \A k \in ClampedKeys :
               config.storage.obj[k] # Absent => InRange(k, config.storage.obj[k])
        /\ config.storage.obj["selectedShapes"].t = "array" =>
               InRange("selectedShapes", config.storage.obj["selectedShapes"])
(***************************************************************************)
(* Properties of the corners of the polygons                               *)
(***************************************************************************)
PolygonNames == {"triangle", "square", "pentagon", "hexagon"}

\* the angles of one turn, every 3 degrees
TurnAngles == {2 * i : i \in 0..119}

\* getShapeDistance(shape, a, { cornerRadius: r, cornerRadiusMethod: 'arc' })
ArcDistance(shape, a, r) ==
    getShapeDistance([t |-> "string", v |-> shape], [t |-> "number", k |-> "fin", v |-> a],
                     [cornerRadius |-> r, cornerRadiusMethod |-> "arc",
                      points |-> 5, innerRadius |-> 400]).v

\* the largest unrounded distance of each polygon over the turn: the distance
\* of its vertices
VertexDistance ==
    [shape \in PolygonNames |->
        LET ds == {ArcDistance(shape, a, 0) : a \in TurnAngles} IN
        CHOOSE x \in ds : \A y \in ds : y <= x]

\* the largest reduction the arc rounding makes over the turn
LargestReduction ==
    [shape \in PolygonNames |->
        [r \in CornerRadii \ {0} |->
            LET ds == {ArcDistance(shape, a, 0) - ArcDistance(shape, a, r) :
                          a \in TurnAngles} IN
            CHOOSE x \in ds : \A y \in ds : y <= x]]

\* a call for a polygon with arc rounding, at an angle of the turn, has returned
ArcPolygonReturned ==
    /\ gPc = "done"
    /\ gShape.t = "string" /\ gShape.v \in PolygonNames
    /\ gOptions.cornerRadiusMethod = "arc" /\ gOptions.cornerRadius > 0
    /\ gAngle.t = "number" /\ gAngle.k = "fin" /\ gAngle.v \in TurnAngles

\* C26: for triangle, square, pentagon and hexagon with the arc method, the
\* angles at which the rounding takes the most off the distance are exactly
\* the angles at which the unrounded distance is largest, the vertices.
C26_CornersAtVertices ==
    ArcPolygonReturned =>
        LET unrounded == ArcDistance(gShape.v, gAngle.v, 0) IN
        (unrounded - gResult.v = LargestReduction[gShape.v][gOptions.cornerRadius])
            <=> (unrounded = VertexDistance[gShape.v])
(***************************************************************************)
(* Properties of the Logger                                                *)
(***************************************************************************)
\* the entries of h run from the newest to the oldest
NewestFirst(h) == \A i \in 1..(Len(h) - 1) : h[i].timestamp >= h[i + 1].timestamp

\* C27: the history holds at most 50 entries, newest first; an entry is
\* recorded only when its level is at or above the current log level; adding
\* an entry to a full history drops the oldest one; and setLogLevel with an
\* unknown level name leaves the current level unchanged.
C27_LoggerHistory ==
    loggerPc.at = "done" =>
        /\ Len(loggerResult.logHistory) <= MAX_HISTORY
        /\ NewestFirst(loggerResult.logHistory)
        /\ (loggerCall.method \in KnownLevels
                /\ loggerResult.logHistory # loggerThis.logHistory) =>
              /\ loggerThis.currentLogLevel.t = "number"
              /\ LOG_LEVELS(loggerCall.method).v >= loggerThis.currentLogLevel.v
              /\ Len(loggerThis.logHistory) = MAX_HISTORY =>
                     loggerResult.logHistory =
                         <<Head(loggerResult.logHistory)>> \o
                         SubSeq(loggerThis.logHistory, 1, MAX_HISTORY - 1)
        /\ (loggerCall.method = "setLogLevel" /\ loggerCall.arg \notin KnownLevels) =>
              loggerResult.currentLogLevel = loggerThis.currentLogLevel
(***************************************************************************)
(* Properties of the debounced resize                                      *)
(***************************************************************************)
\* C28 as claimed: at most one resize timer is pending, and every burst of
\* resize events (each less than 250 ms after the one before) brings exactly
\* one run of resize-and-render, 250 ms after the last event of the burst:
\* the bursts begun are the runs made plus the one burst whose timer is
\* pending.
C28_Debounced ==
    /\ Cardinality(timers) <= 1
    /\ bursts = resizes + Cardinality(timers)
    /\ \A t \in timers : t.id = resizeTimeout /\ t.due = lastResizeEvent + RESIZE_DELAY
    /\ resizes > 0 => lastResizeDelay = RESIZE_DELAY

\* C28 amended: at most one resize timer is pending, the one the last event
\* set; a run of resize-and-render comes 250 ms or more after the last
\* event; and every burst brings at most one run: the bursts begun are the
\* runs made, the one burst whose timer is pending, and the bursts whose
\* timer had not run yet when the next burst began.
C28_DebouncedAtLeast ==
    /\ Cardinality(timers) <= 1
    /\ bursts = resizes + Cardinality(timers) + dropped
    /\ \A t \in timers : t.id = resizeTimeout /\ t.due = lastResizeEvent + RESIZE_DELAY
    /\ resizes > 0 => lastResizeDelay >= RESIZE_DELAY

\* C28 witness: two bursts in which an event replaced the timer of the
\* event before it (the timer id 1 is in use a second time); the timer of
\* the first burst was still set when the second began, and the run of the
\* second came later than 250 ms after its last event
C28_Witness ==
    /\ bursts = 2
    /\ dropped = 1
    /\ resizes = 1
    /\ resizeTimeout = 1
    /\ timers = {}
    /\ lastResizeDelay > RESIZE_DELAY
(***************************************************************************)
(* Properties of the typography controls                                   *)
(***************************************************************************)
\* C29: whenever the selected fontFamily is a handwriting font, the
\* textCase setting is not 'uppercase': no click on a font button, a
\* typography icon or the text-case toggle leads from settings that keep to
\* this to settings that do not.
C29_NoUppercaseHandwriting ==
    [][(TypographyNext /\ (fontFamily \in handwritingFonts => textCase # "uppercase")) =>
        (fontFamily' \in handwritingFonts => textCase' # "uppercase")]_vars
====
